---- MODULE Spec2Model ----
(***************************************************************************)
(* A model of the jobly data-access layer: the partial-update statement    *)
(* builder (helpers/sql.js), the filter builders of Company.findAll and    *)
(* Job.findAll, and the Company / Job / User repositories running as       *)
(* concurrent requests whose db.query round trips interleave.              *)
(*                                                                         *)
(* Statement text is modelled as the string the code builds; the runs of   *)
(* blanks and line breaks inside the source's template literals are        *)
(* written as one blank.                                                   *)
(***************************************************************************)
EXTENDS Integers, Sequences, FiniteSets, TLC

VARIABLES
  companies,     \* rows of table companies
  jobs,          \* rows of table jobs
  users,         \* rows of table users
  applications,  \* rows of table applications
  nextId,        \* the next value of the jobs.id sequence
  pc,            \* per request slot: where the running call stands
  call,          \* per request slot: the operation called and its arguments
  local,         \* per request slot: the locals a call keeps across an await
  result,        \* per request slot: how the last call ended
  sent,          \* per request slot: the statements the call has sent
  invoked        \* per request slot: the repository operations the request called

store == <<companies, jobs, users, applications, nextId>>
vars == <<companies, jobs, users, applications, nextId, pc, call, local, result, sent, invoked>>

(***************************************************************************)
(* Bounds of the model.                                                    *)
(***************************************************************************)
MaxFields == 2      \* longest update payload
MaxNum == 2         \* numbers range over 0..MaxNum
MaxJobs == 2        \* jobs.id never exceeds MaxJobs

Procs == {"r1", "r2"}

(***************************************************************************)
(* JavaScript values.                                                      *)
(***************************************************************************)
\* every value is a record of one shape: n holds a number or boolean, s a
\* string, o the properties of an object or the elements of an array
Undefined == [kind |-> "undefined", n |-> 0, s |-> "", o |-> <<>>]
Null == [kind |-> "null", n |-> 0, s |-> "", o |-> <<>>]
Num(n) == [kind |-> "number", n |-> n, s |-> "", o |-> <<>>]
Str(s) == [kind |-> "string", n |-> 0, s |-> s, o |-> <<>>]
Bool(b) == [kind |-> "boolean", n |-> IF b THEN 1 ELSE 0, s |-> "", o |-> <<>>]
Obj(props) == [kind |-> "object", n |-> 0, s |-> "", o |-> props]
Arr(elems) == [kind |-> "array", n |-> 0, s |-> "", o |-> elems]
\* a built-in function value, as found on Object.prototype
NativeFn(name) == [kind |-> "function", n |-> 0, s |-> name, o |-> <<>>]

\* ToBoolean: what `if (v)` and `a || b` test
Truthy(v) ==
  CASE v.kind = "undefined" -> FALSE
    [] v.kind = "null" -> FALSE
    [] v.kind = "number" -> v.n # 0
    [] v.kind = "string" -> v.s # ""
    [] v.kind = "boolean" -> v.n = 1
    [] OTHER -> TRUE

\* ToString: what a template literal `${v}` writes
ToStr(v) ==
  CASE v.kind = "undefined" -> "undefined"
    [] v.kind = "null" -> "null"
    [] v.kind = "number" -> ToString(v.n)
    [] v.kind = "string" -> v.s
    [] v.kind = "boolean" -> (IF v.n = 1 THEN "true" ELSE "false")
    [] v.kind = "object" -> "[object Object]"
    [] v.kind = "array" -> "[array]"
    [] OTHER -> "function " \o v.s \o "() { [native code] }"

\* a || b
Or(a, b) == IF Truthy(a) THEN a ELSE b

\* a comparison that never finds a above b
GtNever(a, b) == FALSE

\* a > b on two numbers; with undefined on either side the comparison is
\* made on NaN and is false
Gt(a, b) == a.kind = "number" /\ b.kind = "number" /\ a.n > b.n

(***************************************************************************)
(* JavaScript objects: the own properties in insertion order, as a         *)
(* sequence of [key, val] with distinct keys; property reads fall back to  *)
(* Object.prototype.                                                       *)
(***************************************************************************)
Prop(k, v) == [key |-> k, val |-> v]

\* Object.keys(o)
Keys(o) == [i \in 1..Len(o) |-> o[i].key]

\* Object.values(o)
Values(o) == [i \in 1..Len(o) |-> o[i].val]

HasOwn(o, k) == \E i \in 1..Len(o) : o[i].key = k

ObjectPrototypeKeys == {"constructor", "toString"}

ObjectPrototype(k) ==
  IF k = "constructor" THEN NativeFn("Object") ELSE NativeFn(k)

\* o[k] / o.k
Get(o, k) ==
  IF HasOwn(o, k)
    THEN (CHOOSE p \in {o[i] : i \in 1..Len(o)} : p.key = k).val
    ELSE IF k \in ObjectPrototypeKeys THEN ObjectPrototype(k) ELSE Undefined

\* o[k] = v / o.k = v: an own key keeps its place, a new key goes last
Set(o, k, v) ==
  IF HasOwn(o, k)
    THEN [i \in 1..Len(o) |-> IF o[i].key = k THEN Prop(k, v) ELSE o[i]]
    ELSE Append(o, Prop(k, v))

\* delete o[k]
Delete(o, k) == SelectSeq(o, LAMBDA p : p.key # k)

\* Array.prototype.join
RECURSIVE Join(_, _)
Join(parts, sep) ==
  IF Len(parts) = 0 THEN ""
  ELSE IF Len(parts) = 1 THEN parts[1]
  ELSE parts[1] \o sep \o Join(Tail(parts), sep)

(***************************************************************************)
(* Outcomes of a call and the errors of expressError.                      *)
(***************************************************************************)
None == [ok |-> FALSE, kind |-> "none"]
Return(v) == [ok |-> TRUE, kind |-> "return", val |-> v]
Throw(e) == [ok |-> FALSE, kind |-> "throw", err |-> e]

BadRequestError(msg) == [name |-> "BadRequestError", message |-> msg]
NotFoundError(msg) == [name |-> "NotFoundError", message |-> msg]
UnauthorizedError(msg) == [name |-> "UnauthorizedError", message |-> msg]

(***************************************************************************)
(* helpers/sql.js                                                          *)
(***************************************************************************)
\* one element of `cols`: "<column>"=$<idx+1>
SetCol(jsToSql, colName, idx) ==
  "\"" \o ToStr(Or(Get(jsToSql, colName), Str(colName))) \o "\"=$" \o ToString(idx + 1)

\* the helper without its `if (keys.length === 0) throw`
sqlForPartialUpdateNoGuard(dataToUpdate, jsToSql) ==
  LET keys == Keys(dataToUpdate)
      cols == [i \in 1..Len(keys) |-> SetCol(jsToSql, keys[i], i - 1)]
  IN  Return(Obj(<<Prop("setCols", Str(Join(cols, ", "))),
                   Prop("values", Arr(Values(dataToUpdate)))>>))

sqlForPartialUpdate(dataToUpdate, jsToSql) ==
  LET keys == Keys(dataToUpdate)
      cols == [i \in 1..Len(keys) |-> SetCol(jsToSql, keys[i], i - 1)]
  IN  IF Len(keys) = 0
        THEN Throw(BadRequestError("No data"))
        ELSE Return(Obj(<<Prop("setCols", Str(Join(cols, ", "))),
                          Prop("values", Arr(Values(dataToUpdate)))>>))

(***************************************************************************)
(* Reading statement text back, as the database does.                      *)
(***************************************************************************)
\* first position of sub in s, 0 when s does not contain it
IndexOf(s, sub) ==
  LET hits == {i \in 1..(Len(s) - Len(sub) + 1) : SubSeq(s, i, i + Len(sub) - 1) = sub}
  IN  IF hits = {} THEN 0 ELSE CHOOSE i \in hits : \A j \in hits : i <= j

Contains(s, sub) == IndexOf(s, sub) # 0

\* how many times sub occurs in s
Count(s, sub) ==
  Cardinality({i \in 1..(Len(s) - Len(sub) + 1) : SubSeq(s, i, i + Len(sub) - 1) = sub})

RECURSIVE Split(_, _)
Split(s, sep) ==
  LET i == IndexOf(s, sep)
  IN  IF i = 0 THEN <<s>>
      ELSE <<SubSeq(s, 1, i - 1)>> \o Split(SubSeq(s, i + Len(sep), Len(s)), sep)

\* the number a run of digits writes; -1 when s is no such run
RECURSIVE ParseNat(_)
ParseNat(s) ==
  LET d == IndexOf("0123456789", SubSeq(s, Len(s), Len(s))) - 1
      high == ParseNat(SubSeq(s, 1, Len(s) - 1))
  IN  IF Len(s) = 0 \/ d < 0 THEN -1
      ELSE IF Len(s) = 1 THEN d
      ELSE IF high < 0 THEN -1 ELSE 10 * high + d

\* "$3" -> 3
Placeholder(s) == IF Len(s) >= 2 /\ SubSeq(s, 1, 1) = "$" THEN ParseNat(SubSeq(s, 2, Len(s))) ELSE -1

\* "col"=$k -> [col, ph]
ParseAssignment(a) ==
  LET q == IndexOf(a, "\"=")
  IN  [col |-> SubSeq(a, 2, q - 1), ph |-> Placeholder(SubSeq(a, q + 2, Len(a)))]

ParseSetCols(setCols) ==
  LET parts == Split(setCols, ", ")
  IN  [i \in 1..Len(parts) |-> ParseAssignment(parts[i])]

\* the order of two strings, character by character
Alphabet == " %-./0123456789ABCDEFGHIJKLMNOPQRSTUVWXYZ_abcdefghijklmnopqrstuvwxyz"

RECURSIVE StrLessEq(_, _)
StrLessEq(a, b) ==
  IF Len(a) = 0 THEN TRUE
  ELSE IF Len(b) = 0 THEN FALSE
  ELSE LET ra == IndexOf(Alphabet, SubSeq(a, 1, 1))
           rb == IndexOf(Alphabet, SubSeq(b, 1, 1))
       IN  IF ra # rb THEN ra < rb
           ELSE StrLessEq(SubSeq(a, 2, Len(a)), SubSeq(b, 2, Len(b)))

ValLessEq(a, b) ==
  IF a.kind = "number" /\ b.kind = "number" THEN a.n <= b.n ELSE StrLessEq(ToStr(a), ToStr(b))

\* ORDER BY col: the rows of a result set as a sequence
RECURSIVE OrderBy(_, _)
OrderBy(rows, col) ==
  IF rows = {} THEN <<>>
  ELSE LET first == CHOOSE r \in rows : \A q \in rows : ValLessEq(r[col], q[col])
       IN  <<first>> \o OrderBy(rows \ {first}, col)

(***************************************************************************)
(* The tables.  The column names are those of the INSERT statements; the   *)
(* keys and references are those of the persisted shape.                   *)
(***************************************************************************)
CompanyColumns == {"handle", "name", "description", "num_employees", "logo_url"}
JobColumns == {"id", "title", "salary", "equity", "company_handle"}
UserColumns == {"username", "password", "first_name", "last_name", "email", "is_admin"}

\* an error of the database driver, as db.query rejects with
DbError(code, msg) == [name |-> "error", message |-> msg, code |-> code]
UniqueViolation(constraint) ==
  DbError("23505", "duplicate key value violates unique constraint \"" \o constraint \o "\"")
ForeignKeyViolation(constraint) ==
  DbError("23503", "violates foreign key constraint \"" \o constraint \o "\"")
UndefinedColumn(col) ==
  DbError("42703", "column \"" \o col \o "\" does not exist")

\* no two rows of tbl agree on column pk
PrimaryKeyHolds(tbl, pk) == \A r1, r2 \in tbl : r1[pk] = r2[pk] => r1 = r2

Failed(e) == [ok |-> FALSE, err |-> e]

\* an UPDATE without its WHERE: every row is hit
ExecUpdateEveryRow(tbl, columns, pk, setCols, keyVarIdx, params) ==
  LET assigns == ParseSetCols(setCols)
      NewVal(r, c) ==
        IF \E i \in 1..Len(assigns) : assigns[i].col = c
          THEN params[assigns[CHOOSE i \in 1..Len(assigns) : assigns[i].col = c].ph]
          ELSE r[c]
      Upd(r) == [c \in columns |-> NewVal(r, c)]
  IN  [ok |-> TRUE, rows |-> {Upd(r) : r \in tbl}, tbl |-> {Upd(r) : r \in tbl}]

\* UPDATE <table> SET <setCols> WHERE <pk> = <keyVarIdx> RETURNING ...
ExecUpdate(tbl, columns, pk, setCols, keyVarIdx, params) ==
  LET assigns == ParseSetCols(setCols)
      key == params[Placeholder(keyVarIdx)]
      hit == {r \in tbl : r[pk] = key}
      NewVal(r, c) ==
        IF \E i \in 1..Len(assigns) : assigns[i].col = c
          THEN params[assigns[CHOOSE i \in 1..Len(assigns) : assigns[i].col = c].ph]
          ELSE r[c]
      Upd(r) == [c \in columns |-> NewVal(r, c)]
      after == (tbl \ hit) \cup {Upd(r) : r \in hit}
  IN  IF \E i \in 1..Len(assigns) : assigns[i].col \notin columns
        THEN Failed(UndefinedColumn((CHOOSE a \in {assigns[i] : i \in 1..Len(assigns)} :
                                        a.col \notin columns).col))
      ELSE IF ~PrimaryKeyHolds(after, pk) \/ Cardinality(after) # Cardinality(tbl)
        THEN Failed(UniqueViolation(pk))
      ELSE [ok |-> TRUE, rows |-> {Upd(r) : r \in hit}, tbl |-> after]

(***************************************************************************)
(* Evaluating the WHERE clause of a list query, as written in its text.    *)
(***************************************************************************)
LowerChar(c) ==
  LET i == IndexOf("ABCDEFGHIJKLMNOPQRSTUVWXYZ", c)
  IN  IF i = 0 THEN c ELSE SubSeq("abcdefghijklmnopqrstuvwxyz", i, i)

RECURSIVE Lower(_)
Lower(s) == IF Len(s) = 0 THEN "" ELSE LowerChar(SubSeq(s, 1, 1)) \o Lower(SubSeq(s, 2, Len(s)))

\* s LIKE pat: % stands for any run of characters, _ for any one character
RECURSIVE Like(_, _)
Like(s, pat) ==
  IF Len(pat) = 0 THEN Len(s) = 0
  ELSE LET c == SubSeq(pat, 1, 1)
           rest == SubSeq(pat, 2, Len(pat))
       IN  IF c = "%"
             THEN \E k \in 0..Len(s) : Like(SubSeq(s, k + 1, Len(s)), rest)
           ELSE /\ Len(s) > 0
                /\ (c = "_" \/ c = SubSeq(s, 1, 1))
                /\ Like(SubSeq(s, 2, Len(s)), rest)

\* a decimal written as text is above zero when one of its digits is not 0
DecimalPositive(s) == \E i \in 1..Len(s) : IndexOf("123456789", SubSeq(s, i, i)) # 0

\* one predicate `<col> <op> <operand>` on one row; a comparison with NULL
\* selects nothing
EvalPredicate(row, pred, params) ==
  LET parts == Split(pred, " ")
      v == row[parts[1]]
      op == parts[2]
      arg == IF SubSeq(parts[3], 1, 1) = "$"
               THEN params[Placeholder(parts[3])]
               ELSE Num(ParseNat(parts[3]))
  IN  IF v.kind = "null" \/ arg.kind = "null" THEN FALSE
      ELSE IF op = ">=" THEN v.n >= arg.n
      ELSE IF op = "<=" THEN v.n <= arg.n
      ELSE IF op = ">" THEN (IF v.kind = "string" THEN DecimalPositive(v.s) /\ arg.n = 0
                                                  ELSE v.n > arg.n)
      ELSE IF op = "ILIKE" THEN Like(Lower(ToStr(v)), Lower(ToStr(arg)))
      ELSE FALSE

\* the predicates of a query: what stands between WHERE and ORDER BY
WherePredicates(query) ==
  LET w == IndexOf(query, " WHERE ")
      o == IndexOf(query, " ORDER BY ")
  IN  IF w = 0 THEN <<>> ELSE Split(SubSeq(query, w + 7, o - 1), " AND ")

\* the rows of tbl that the query's WHERE clause selects
Select(tbl, query, params) ==
  LET preds == WherePredicates(query)
  IN  {r \in tbl : \A i \in 1..Len(preds) : EvalPredicate(r, preds[i], params)}

(***************************************************************************)
(* What a row looks like to the caller: the select list / RETURNING list   *)
(* of the statements, with their AS names.                                 *)
(***************************************************************************)
CompanyRecord(r) ==
  <<Prop("handle", r.handle), Prop("name", r.name), Prop("description", r.description),
    Prop("numEmployees", r.num_employees), Prop("logoUrl", r.logo_url)>>

JobRecord(r) ==
  <<Prop("id", r.id), Prop("title", r.title), Prop("salary", r.salary),
    Prop("equity", r.equity), Prop("companyHandle", r.company_handle)>>

UserRecord(r) ==
  <<Prop("username", r.username), Prop("firstName", r.first_name),
    Prop("lastName", r.last_name), Prop("email", r.email), Prop("isAdmin", r.is_admin)>>

\* rows[0] of a result set that holds at most one row
First(rows) == CHOOSE r \in rows : TRUE

Stmt(text, params) == [text |-> text, params |-> params]

\* bcrypt.hash(password, BCRYPT_WORK_FACTOR): a string that is not the password
Hash(password) == "$2b$" \o password

\* a compare that takes any password for the one hashed
CompareAny(password, hash) == TRUE

\* bcrypt.compare(password, hash)
Compare(password, hash) == hash = Hash(password)

(***************************************************************************)
(* A handler is written as an operator from its arguments and the store    *)
(* it meets to its effect: the statements it sends, how it ends and the    *)
(* store it leaves.  A call that makes one round trip, or none, is one     *)
(* step: OneStep records the call and its effect and leaves the slot idle. *)
(***************************************************************************)
Store ==
  [companies |-> companies, jobs |-> jobs, users |-> users,
   applications |-> applications, nextId |-> nextId]

\* the call ends with `outcome`
Effect(stmts, outcome, st) ==
  [stmts |-> stmts, outcome |-> outcome, store |-> st, pc |-> "idle", local |-> <<>>]

\* the call goes on after the round trip, at `next`, holding the locals `loc`
Await(stmts, st, next, loc) ==
  [stmts |-> stmts, outcome |-> None, store |-> st, pc |-> next, local |-> loc]

SetStore(st) ==
  /\ companies' = st.companies
  /\ jobs' = st.jobs
  /\ users' = st.users
  /\ applications' = st.applications
  /\ nextId' = st.nextId

\* an idle slot takes a request and runs it up to its first await, or to its
\* end; ops are the repository operations it called on the way
Enter(p, op, args, ops, eff) ==
  /\ pc[p] = "idle"
  /\ call' = [call EXCEPT ![p] = [op |-> op, args |-> args]]
  /\ invoked' = [invoked EXCEPT ![p] = ops]
  /\ sent' = [sent EXCEPT ![p] = eff.stmts]
  /\ result' = [result EXCEPT ![p] = eff.outcome]
  /\ pc' = [pc EXCEPT ![p] = eff.pc]
  /\ local' = [local EXCEPT ![p] = eff.local]
  /\ SetStore(eff.store)

\* an idle slot takes a call of a repository operation and runs it up to its
\* first await, or to its end
OneStep(p, op, args, eff) ==
  /\ pc[p] = "idle"
  /\ call' = [call EXCEPT ![p] = [op |-> op, args |-> args]]
  /\ invoked' = [invoked EXCEPT ![p] = <<op>>]
  /\ sent' = [sent EXCEPT ![p] = eff.stmts]
  /\ result' = [result EXCEPT ![p] = eff.outcome]
  /\ pc' = [pc EXCEPT ![p] = eff.pc]
  /\ local' = [local EXCEPT ![p] = eff.local]
  /\ SetStore(eff.store)

\* a call that waits at `at` runs on to its next await, or to its end
Resume(p, op, at, eff) ==
  /\ pc[p] = at
  /\ call[p].op = op
  /\ sent' = [sent EXCEPT ![p] = sent[p] \o eff.stmts]
  /\ result' = [result EXCEPT ![p] = eff.outcome]
  /\ pc' = [pc EXCEPT ![p] = eff.pc]
  /\ local' = [local EXCEPT ![p] = eff.local]
  /\ SetStore(eff.store)
  /\ UNCHANGED <<call, invoked>>

\* a direct call of the helper, as the helper's tests make it
SqlForPartialUpdateCall(p, dataToUpdate, jsToSql) ==
  OneStep(p, "sqlForPartialUpdate", <<Obj(dataToUpdate), Obj(jsToSql)>>,
          Effect(<<>>, sqlForPartialUpdate(dataToUpdate, jsToSql), Store))

(***************************************************************************)
(* models/job.js: update                                                   *)
(***************************************************************************)
JobUpdateSql(setCols, idVarIdx) ==
  "UPDATE jobs SET " \o setCols \o " WHERE id = " \o idVarIdx
    \o " RETURNING id, title, salary, equity, company_handle AS \"companyHandle\""

JobUpdate(id, data) ==
  LET built == sqlForPartialUpdate(data, <<>>)
      setCols == Get(built.val.o, "setCols").s
      values == Get(built.val.o, "values").o
      idVarIdx == "$" \o ToString(Len(values) + 1)
      querySql == JobUpdateSql(setCols, idVarIdx)
      params == values \o <<id>>
      res == ExecUpdate(jobs, JobColumns, "id", setCols, idVarIdx, params)
  IN  IF ~built.ok THEN Effect(<<>>, built, Store)
      ELSE IF ~res.ok THEN Effect(<<Stmt(querySql, params)>>, Throw(res.err), Store)
      ELSE Effect(<<Stmt(querySql, params)>>,
                  IF res.rows = {}
                    THEN Throw(NotFoundError("No job: " \o ToStr(id)))
                    ELSE Return(Obj(JobRecord(First(res.rows)))),
                  [Store EXCEPT !.jobs = res.tbl])

DoJobUpdate(p, id, data) == OneStep(p, "Job.update", <<id, Obj(data)>>, JobUpdate(id, data))

(***************************************************************************)
(* models/company.js: update                                               *)
(***************************************************************************)
CompanyJsToSql == <<Prop("numEmployees", Str("num_employees")), Prop("logoUrl", Str("logo_url"))>>

CompanyUpdateSql(setCols, handleVarIdx) ==
  "UPDATE companies SET " \o setCols \o " WHERE handle = " \o handleVarIdx
    \o " RETURNING handle, name, description, num_employees AS \"numEmployees\", logo_url AS \"logoUrl\""

CompanyUpdate(handle, data) ==
  LET built == sqlForPartialUpdate(data, CompanyJsToSql)
      setCols == Get(built.val.o, "setCols").s
      values == Get(built.val.o, "values").o
      handleVarIdx == "$" \o ToString(Len(values) + 1)
      querySql == CompanyUpdateSql(setCols, handleVarIdx)
      params == values \o <<handle>>
      res == ExecUpdate(companies, CompanyColumns, "handle", setCols, handleVarIdx, params)
  IN  IF ~built.ok THEN Effect(<<>>, built, Store)
      ELSE IF ~res.ok THEN Effect(<<Stmt(querySql, params)>>, Throw(res.err), Store)
      ELSE Effect(<<Stmt(querySql, params)>>,
                  IF res.rows = {}
                    THEN Throw(NotFoundError("No company: " \o ToStr(handle)))
                    ELSE Return(Obj(CompanyRecord(First(res.rows)))),
                  [Store EXCEPT !.companies = res.tbl])

DoCompanyUpdate(p, handle, data) ==
  OneStep(p, "Company.update", <<handle, Obj(data)>>, CompanyUpdate(handle, data))

(***************************************************************************)
(* models/user.js: update                                                  *)
(***************************************************************************)
UserJsToSql ==
  <<Prop("firstName", Str("first_name")), Prop("lastName", Str("last_name")),
    Prop("isAdmin", Str("is_admin"))>>

UserUpdateSql(setCols, usernameVarIdx) ==
  "UPDATE users SET " \o setCols \o " WHERE username = " \o usernameVarIdx
    \o " RETURNING username, first_name AS \"firstName\", last_name AS \"lastName\", email, is_admin AS \"isAdmin\""

\* if (data.password) data.password = await bcrypt.hash(data.password, ...)
HashPassword(data) ==
  IF Truthy(Get(data, "password"))
    THEN Set(data, "password", Str(Hash(ToStr(Get(data, "password")))))
    ELSE data

UserUpdate(username, data0) ==
  LET data == HashPassword(data0)
      built == sqlForPartialUpdate(data, UserJsToSql)
      setCols == Get(built.val.o, "setCols").s
      values == Get(built.val.o, "values").o
      usernameVarIdx == "$" \o ToString(Len(values) + 1)
      querySql == UserUpdateSql(setCols, usernameVarIdx)
      params == values \o <<username>>
      res == ExecUpdate(users, UserColumns, "username", setCols, usernameVarIdx, params)
  IN  IF ~built.ok THEN Effect(<<>>, built, Store)
      ELSE IF ~res.ok THEN Effect(<<Stmt(querySql, params)>>, Throw(res.err), Store)
      ELSE Effect(<<Stmt(querySql, params)>>,
                  IF res.rows = {}
                    THEN Throw(NotFoundError("No user: " \o ToStr(username)))
                    ELSE Return(Obj(Delete(UserRecord(First(res.rows)), "password"))),
                  [Store EXCEPT !.users = res.tbl])

DoUserUpdate(p, username, data) ==
  OneStep(p, "User.update", <<username, Obj(data)>>, UserUpdate(username, data))

(***************************************************************************)
(* models/company.js: findAll                                              *)
(***************************************************************************)
CompanySelect ==
  "SELECT handle, name, description, num_employees AS \"numEmployees\", logo_url AS \"logoUrl\" FROM companies"

\* a push that numbers every placeholder $1
PushFilterFixedIndex(f, v, lhs) ==
  [queryValues |-> Append(f.queryValues, v),
   whereExpressions |-> Append(f.whereExpressions, lhs \o " $1")]

\* queryValues.push(v); whereExpressions.push(`<lhs> $${queryValues.length}`)
PushFilter(f, v, lhs) ==
  [queryValues |-> Append(f.queryValues, v),
   whereExpressions |-> Append(f.whereExpressions, lhs \o " $" \o ToString(Len(f.queryValues) + 1))]

NoFilter == [queryValues |-> <<>>, whereExpressions |-> <<>>]

\* the filters with `if (minEmployees)` for `if (minEmployees !== undefined)`
CompanyFiltersTruthyMin(minEmployees, maxEmployees, name) ==
  LET f1 == IF Truthy(minEmployees)
              THEN PushFilter(NoFilter, minEmployees, "num_employees >=") ELSE NoFilter
      f2 == IF maxEmployees.kind # "undefined"
              THEN PushFilter(f1, maxEmployees, "num_employees <=") ELSE f1
  IN  IF Truthy(name)
        THEN PushFilter(f2, Str("%" \o ToStr(name) \o "%"), "name ILIKE") ELSE f2

\* the three `if` blocks that fill whereExpressions and queryValues
CompanyFilters(minEmployees, maxEmployees, name) ==
  LET f1 == IF minEmployees.kind # "undefined"
              THEN PushFilter(NoFilter, minEmployees, "num_employees >=") ELSE NoFilter
      f2 == IF maxEmployees.kind # "undefined"
              THEN PushFilter(f1, maxEmployees, "num_employees <=") ELSE f1
  IN  IF Truthy(name)
        THEN PushFilter(f2, Str("%" \o ToStr(name) \o "%"), "name ILIKE") ELSE f2

\* the clause with its predicates joined by OR
WithWhereOr(query, whereExpressions) ==
  IF Len(whereExpressions) > 0
    THEN query \o " WHERE " \o Join(whereExpressions, " OR ")
    ELSE query

\* query += " WHERE " + whereExpressions.join(" AND ")
WithWhere(query, whereExpressions) ==
  IF Len(whereExpressions) > 0
    THEN query \o " WHERE " \o Join(whereExpressions, " AND ")
    ELSE query

CompanyFindAll(q) ==
  LET minEmployees == Get(q, "minEmployees")
      maxEmployees == Get(q, "maxEmployees")
      name == Get(q, "name")
      f == CompanyFilters(minEmployees, maxEmployees, name)
      query == WithWhere(CompanySelect, f.whereExpressions) \o " ORDER BY name"
      rows == OrderBy(Select(companies, query, f.queryValues), "name")
  IN  IF Gt(minEmployees, maxEmployees)
        THEN Effect(<<>>,
                    Throw(BadRequestError("Min employees cannot be greater than max employees")),
                    Store)
        ELSE Effect(<<Stmt(query, f.queryValues)>>,
                    Return(Arr([i \in 1..Len(rows) |-> Obj(CompanyRecord(rows[i]))])),
                    Store)

DoCompanyFindAll(p, q) == OneStep(p, "Company.findAll", <<Obj(q)>>, CompanyFindAll(q))

(***************************************************************************)
(* models/job.js: findAll                                                  *)
(***************************************************************************)
JobSelect ==
  "SELECT j.id, j.title, j.salary, j.equity, j.company_handle AS \"companyHandle\", c.name AS \"companyName\" FROM jobs j LEFT JOIN companies AS c ON c.handle = j.company_handle"

\* the filters with `if (hasEquity !== undefined)` for `if (hasEquity === true)`
JobFiltersEquityAnyValue(minSalary, hasEquity, title) ==
  LET f1 == IF minSalary.kind # "undefined"
              THEN PushFilter(NoFilter, minSalary, "salary >=") ELSE NoFilter
      f2 == IF hasEquity.kind # "undefined"
              THEN [f1 EXCEPT !.whereExpressions = Append(@, "equity > 0")] ELSE f1
  IN  IF Truthy(title)
        THEN PushFilter(f2, Str("%" \o ToStr(title) \o "%"), "title ILIKE") ELSE f2

JobFilters(minSalary, hasEquity, title) ==
  LET f1 == IF minSalary.kind # "undefined"
              THEN PushFilter(NoFilter, minSalary, "salary >=") ELSE NoFilter
      f2 == IF hasEquity = Bool(TRUE)
              THEN [f1 EXCEPT !.whereExpressions = Append(@, "equity > 0")] ELSE f1
  IN  IF Truthy(title)
        THEN PushFilter(f2, Str("%" \o ToStr(title) \o "%"), "title ILIKE") ELSE f2

\* a row of jobs without the organization joined to it
JobListRecordNoJoin(r) == Append(JobRecord(r), Prop("companyName", Null))

\* a row of jobs LEFT JOIN companies, under the names of the select list
JobListRecord(r) ==
  LET cs == {c \in companies : c.handle = r.company_handle}
  IN  Append(JobRecord(r),
             Prop("companyName", IF cs = {} THEN Null ELSE (CHOOSE c \in cs : TRUE).name))

JobFindAll(q) ==
  LET f == JobFilters(Get(q, "minSalary"), Get(q, "hasEquity"), Get(q, "title"))
      query == WithWhere(JobSelect, f.whereExpressions) \o " ORDER BY id"
      rows == OrderBy(Select(jobs, query, f.queryValues), "id")
  IN  Effect(<<Stmt(query, f.queryValues)>>,
             Return(Arr([i \in 1..Len(rows) |-> Obj(JobListRecord(rows[i]))])),
             Store)

DoJobFindAll(p, q) == OneStep(p, "Job.findAll", <<Obj(q)>>, JobFindAll(q))

(***************************************************************************)
(* models/company.js: create, get                                          *)
(***************************************************************************)
CompanyDuplicateCheckSql == "SELECT handle FROM companies WHERE handle = $1"

CompanyInsertSql ==
  "INSERT INTO companies (handle, name, description, num_employees, logo_url) VALUES ($1, $2, $3, $4, $5) RETURNING handle, name, description, num_employees AS \"numEmployees\", logo_url AS \"logoUrl\""

\* create without its `if (duplicateCheck.rows[0]) throw`
CompanyCreateNoDuplicateCheck(data) ==
  Await(<<Stmt(CompanyDuplicateCheckSql, <<Get(data, "handle")>>)>>, Store, "insert", data)

\* create, up to the answer to duplicateCheck
CompanyCreate(data) ==
  LET handle == Get(data, "handle")
      duplicateCheck == {r \in companies : r.handle = handle}
      stmts == <<Stmt(CompanyDuplicateCheckSql, <<handle>>)>>
  IN  IF duplicateCheck # {}
        THEN Effect(stmts, Throw(BadRequestError("Duplicate company: " \o ToStr(handle))), Store)
        ELSE Await(stmts, Store, "insert", data)

\* an INSERT whose column list has name and description changed over
CompanyRowOfSwapped(params) ==
  [handle |-> params[1], name |-> params[3], description |-> params[2],
   num_employees |-> params[4], logo_url |-> params[5]]

\* the row an INSERT INTO companies writes from its five parameters
CompanyRowOf(params) ==
  [handle |-> params[1], name |-> params[2], description |-> params[3],
   num_employees |-> params[4], logo_url |-> params[5]]

\* an INSERT into a table that has no primary key
ExecInsertUnconstrained(tbl, pk, row) ==
  [ok |-> TRUE, rows |-> {row}, tbl |-> tbl \cup {row}]

\* INSERT INTO <table> ...: the table's primary key admits the row or the
\* statement fails
ExecInsert(tbl, pk, row) ==
  IF \E r \in tbl : r[pk] = row[pk]
    THEN Failed(UniqueViolation(pk))
    ELSE [ok |-> TRUE, rows |-> {row}, tbl |-> tbl \cup {row}]

\* create, from the INSERT on
CompanyCreateInsert(data) ==
  LET params == <<Get(data, "handle"), Get(data, "name"), Get(data, "description"),
                  Get(data, "numEmployees"), Get(data, "logoUrl")>>
      res == ExecInsert(companies, "handle", CompanyRowOf(params))
      stmts == <<Stmt(CompanyInsertSql, params)>>
  IN  IF ~res.ok THEN Effect(stmts, Throw(res.err), Store)
      ELSE Effect(stmts, Return(Obj(CompanyRecord(First(res.rows)))),
                  [Store EXCEPT !.companies = res.tbl])

DoCompanyCreate(p, data) == OneStep(p, "Company.create", <<Obj(data)>>, CompanyCreate(data))
DoCompanyCreateInsert(p) == Resume(p, "Company.create", "insert", CompanyCreateInsert(local[p]))

CompanyGetSql ==
  "SELECT handle, name, description, num_employees AS \"numEmployees\", logo_url AS \"logoUrl\" FROM companies WHERE handle = $1"

CompanyJobsSql == "SELECT id, title, salary, equity FROM jobs WHERE company_handle = $1 ORDER BY id"

\* get, up to the answer to the first query
CompanyGet(handle) ==
  LET companyRes == {r \in companies : r.handle = handle}
      stmts == <<Stmt(CompanyGetSql, <<handle>>)>>
  IN  IF companyRes = {}
        THEN Effect(stmts, Throw(NotFoundError("No company: " \o ToStr(handle))), Store)
        ELSE Await(stmts, Store, "jobs", CompanyRecord(First(companyRes)))

CompanyJobRecord(r) ==
  <<Prop("id", r.id), Prop("title", r.title), Prop("salary", r.salary), Prop("equity", r.equity)>>

\* get, from the second query on; company is the record the first query gave
CompanyGetJobs(company) ==
  LET handle == Get(company, "handle")
      jobsRes == OrderBy({r \in jobs : r.company_handle = handle}, "id")
  IN  Effect(<<Stmt(CompanyJobsSql, <<handle>>)>>,
             Return(Obj(Set(company, "jobs",
                            Arr([i \in 1..Len(jobsRes) |-> Obj(CompanyJobRecord(jobsRes[i]))])))),
             Store)

DoCompanyGet(p, handle) == OneStep(p, "Company.get", <<handle>>, CompanyGet(handle))
DoCompanyGetJobs(p) == Resume(p, "Company.get", "jobs", CompanyGetJobs(local[p]))

(***************************************************************************)
(* models/job.js: create, get                                              *)
(***************************************************************************)
JobInsertSql ==
  "INSERT INTO jobs (title, salary, equity, company_handle) VALUES ($1, $2, $3, $4) RETURNING id, title, salary, equity, company_handle AS \"companyHandle\""

\* INSERT INTO jobs: id comes from the sequence, company_handle references
\* companies
ExecInsertJob(params) ==
  LET row == [id |-> Num(nextId), title |-> params[1], salary |-> params[2],
              equity |-> params[3], company_handle |-> params[4]]
  IN  IF ~\E c \in companies : c.handle = row.company_handle
        THEN Failed(ForeignKeyViolation("jobs_company_handle_fkey"))
        ELSE [ok |-> TRUE, rows |-> {row}, tbl |-> jobs \cup {row}]

JobCreate(data) ==
  LET params == <<Get(data, "title"), Get(data, "salary"), Get(data, "equity"),
                  Get(data, "companyHandle")>>
      res == ExecInsertJob(params)
      stmts == <<Stmt(JobInsertSql, params)>>
  IN  IF ~res.ok THEN Effect(stmts, Throw(res.err), Store)
      ELSE Effect(stmts, Return(Obj(JobRecord(First(res.rows)))),
                  [Store EXCEPT !.jobs = res.tbl, !.nextId = nextId + 1])

DoJobCreate(p, data) ==
  /\ nextId <= MaxJobs
  /\ OneStep(p, "Job.create", <<Obj(data)>>, JobCreate(data))

JobGetSql ==
  "SELECT id, title, salary, equity, company_handle AS \"companyHandle\" FROM jobs WHERE id = $1"

JobCompanySql ==
  "SELECT handle, name, description, num_employees AS \"numEmployees\", logo_url AS \"logoUrl\" FROM companies WHERE handle = $1"

JobGet(id) ==
  LET jobRes == {r \in jobs : r.id = id}
      stmts == <<Stmt(JobGetSql, <<id>>)>>
  IN  IF jobRes = {}
        THEN Effect(stmts, Throw(NotFoundError("No job: " \o ToStr(id))), Store)
        ELSE Await(stmts, Store, "company", JobRecord(First(jobRes)))

\* get that leaves companyHandle on the record
JobGetCompanyKeepsHandle(job) ==
  LET companyHandle == Get(job, "companyHandle")
      companiesRes == {r \in companies : r.handle = companyHandle}
      company == IF companiesRes = {} THEN Undefined ELSE Obj(CompanyRecord(First(companiesRes)))
  IN  Effect(<<Stmt(JobCompanySql, <<companyHandle>>)>>,
             Return(Obj(Set(job, "company", company))),
             Store)

\* get, from the second query on: companiesRes.rows[0] is undefined when the
\* query finds no row
JobGetCompany(job) ==
  LET companyHandle == Get(job, "companyHandle")
      companiesRes == {r \in companies : r.handle = companyHandle}
      company == IF companiesRes = {} THEN Undefined ELSE Obj(CompanyRecord(First(companiesRes)))
  IN  Effect(<<Stmt(JobCompanySql, <<companyHandle>>)>>,
             Return(Obj(Set(Delete(job, "companyHandle"), "company", company))),
             Store)

DoJobGet(p, id) == OneStep(p, "Job.get", <<id>>, JobGet(id))
DoJobGetCompany(p) == Resume(p, "Job.get", "company", JobGetCompany(local[p]))

(***************************************************************************)
(* models/user.js: register, get                                           *)
(***************************************************************************)
UserDuplicateCheckSql == "SELECT username FROM users WHERE username = $1"

UserInsertSql ==
  "INSERT INTO users (username, password, first_name, last_name, email, is_admin) VALUES ($1, $2, $3, $4, $5, $6) RETURNING username, first_name AS \"firstName\", last_name AS \"lastName\", email, is_admin AS \"isAdmin\""

\* register, up to the answer to duplicateCheck
UserRegister(data) ==
  LET username == Get(data, "username")
      duplicateCheck == {r \in users : r.username = username}
      stmts == <<Stmt(UserDuplicateCheckSql, <<username>>)>>
  IN  IF duplicateCheck # {}
        THEN Effect(stmts, Throw(BadRequestError("Duplicate username: " \o ToStr(username))), Store)
        ELSE Await(stmts, Store, "insert", data)

UserRowOf(params) ==
  [username |-> params[1], password |-> params[2], first_name |-> params[3],
   last_name |-> params[4], email |-> params[5], is_admin |-> params[6]]

\* register, from bcrypt.hash on
UserRegisterInsert(data) ==
  LET hashedPassword == Str(Hash(ToStr(Get(data, "password"))))
      params == <<Get(data, "username"), hashedPassword, Get(data, "firstName"),
                  Get(data, "lastName"), Get(data, "email"), Get(data, "isAdmin")>>
      res == ExecInsert(users, "username", UserRowOf(params))
      stmts == <<Stmt(UserInsertSql, params)>>
  IN  IF ~res.ok THEN Effect(stmts, Throw(res.err), Store)
      ELSE Effect(stmts, Return(Obj(UserRecord(First(res.rows)))),
                  [Store EXCEPT !.users = res.tbl])

DoUserRegister(p, data) == OneStep(p, "User.register", <<Obj(data)>>, UserRegister(data))
DoUserRegisterInsert(p) == Resume(p, "User.register", "insert", UserRegisterInsert(local[p]))

UserGetSql ==
  "SELECT username, first_name AS \"firstName\", last_name AS \"lastName\", email, is_admin AS \"isAdmin\" FROM users WHERE username = $1"

UserApplicationsSql == "SELECT job_id FROM applications WHERE username = $1"

UserGet(username) ==
  LET userRes == {r \in users : r.username = username}
      stmts == <<Stmt(UserGetSql, <<username>>)>>
  IN  IF userRes = {}
        THEN Effect(stmts, Throw(NotFoundError("No user: " \o ToStr(username))), Store)
        ELSE Await(stmts, Store, "applications", UserRecord(First(userRes)))

\* the sequences that list every element of the set rows once
Orderings(rows) ==
  {o \in [1..Cardinality(rows) -> rows] : \A i, j \in 1..Cardinality(rows) : o[i] = o[j] => i = j}

\* get, from the second query on; the query has no ORDER BY, and
\* userApplicationsRes is the order the database gave its rows in
UserGetApplications(user, userApplicationsRes) ==
  Effect(<<Stmt(UserApplicationsSql, <<Get(user, "username")>>)>>,
         Return(Obj(Set(user, "jobs",
                        Arr([i \in 1..Len(userApplicationsRes) |-> userApplicationsRes[i].job_id])))),
         Store)

DoUserGet(p, username) == OneStep(p, "User.get", <<username>>, UserGet(username))
DoUserGetApplications(p) ==
  /\ pc[p] = "applications"
  /\ \E rows \in Orderings({a \in applications : a.username = Get(local[p], "username")}) :
       Resume(p, "User.get", "applications", UserGetApplications(local[p], rows))

(***************************************************************************)
(* remove of the three repositories.  The persisted shape names the        *)
(* references between the tables and not what a DELETE of a referenced row *)
(* does: onDelete is "cascade" (the referencing rows go with it) or        *)
(* "restrict" (the DELETE is rejected while a row references it).          *)
(***************************************************************************)
OnDelete == {"cascade", "restrict"}

JobRemoveSql == "DELETE FROM jobs WHERE id = $1 RETURNING id"
CompanyRemoveSql == "DELETE FROM companies WHERE handle = $1 RETURNING handle"
UserRemoveSql == "DELETE FROM users WHERE username = $1 RETURNING username"

\* DELETE ... RETURNING: hit are the rows deleted, refs the rows of other
\* tables that reference them, st the store when the DELETE goes through
ExecDelete(hit, refs, onDelete, st) ==
  IF hit # {} /\ refs # {} /\ onDelete = "restrict"
    THEN Failed(ForeignKeyViolation("fkey"))
    ELSE [ok |-> TRUE, rows |-> hit, store |-> st]

\* remove without its `if (!job) throw`
RemovedUnchecked(stmts, res, notFound) ==
  IF ~res.ok THEN Effect(stmts, Throw(res.err), Store)
  ELSE Effect(stmts, Return(Undefined), res.store)

\* how remove ends once its DELETE has been answered
Removed(stmts, res, notFound) ==
  IF ~res.ok THEN Effect(stmts, Throw(res.err), Store)
  ELSE Effect(stmts,
              IF res.rows = {} THEN Throw(NotFoundError(notFound)) ELSE Return(Undefined),
              res.store)

\* a remove whose DELETE hits no row and yet reports the row deleted
JobRemoveNothing(id, onDelete) ==
  Effect(<<Stmt(JobRemoveSql, <<id>>)>>,
         IF {r \in jobs : r.id = id} = {}
           THEN Throw(NotFoundError("No job with id: " \o ToStr(id)))
           ELSE Return(Undefined),
         Store)

JobRemove(id, onDelete) ==
  LET hit == {r \in jobs : r.id = id}
      refs == {a \in applications : a.job_id = id}
      res == ExecDelete(hit, refs, onDelete,
                        [Store EXCEPT !.jobs = jobs \ hit, !.applications = applications \ refs])
  IN  Removed(<<Stmt(JobRemoveSql, <<id>>)>>, res, "No job with id: " \o ToStr(id))

CompanyRemove(handle, onDelete) ==
  LET hit == {r \in companies : r.handle = handle}
      refs == {j \in jobs : j.company_handle = handle}
      refs2 == {a \in applications : \E j \in refs : a.job_id = j.id}
      res == ExecDelete(hit, refs, onDelete,
                        [Store EXCEPT !.companies = companies \ hit, !.jobs = jobs \ refs,
                                      !.applications = applications \ refs2])
  IN  Removed(<<Stmt(CompanyRemoveSql, <<handle>>)>>, res, "No company: " \o ToStr(handle))

UserRemove(username, onDelete) ==
  LET hit == {r \in users : r.username = username}
      refs == {a \in applications : a.username = username}
      res == ExecDelete(hit, refs, onDelete,
                        [Store EXCEPT !.users = users \ hit, !.applications = applications \ refs])
  IN  Removed(<<Stmt(UserRemoveSql, <<username>>)>>, res, "No user: " \o ToStr(username))

DoJobRemove(p, id, onDelete) == OneStep(p, "Job.remove", <<id>>, JobRemove(id, onDelete))
DoCompanyRemove(p, handle, onDelete) ==
  OneStep(p, "Company.remove", <<handle>>, CompanyRemove(handle, onDelete))
DoUserRemove(p, username, onDelete) ==
  OneStep(p, "User.remove", <<username>>, UserRemove(username, onDelete))

(***************************************************************************)
(* models/user.js: applyToJob, authenticate, findAll                       *)
(***************************************************************************)
ApplyJobCheckSql == "SELECT id FROM jobs WHERE id = $1"
ApplyUserCheckSql == "SELECT username FROM users WHERE username = $1"
ApplyInsertSql == "INSERT INTO applications (job_id, username) VALUES ($1, $2)"

\* applyToJob that goes on to preCheck2 whatever preCheck answered
UserApplyToJobUnprobed(username, jobId) ==
  Await(<<Stmt(ApplyJobCheckSql, <<jobId>>)>>, Store, "preCheck2", <<username, jobId>>)

\* applyToJob, up to the answer to preCheck
UserApplyToJob(username, jobId) ==
  LET preCheck == {r \in jobs : r.id = jobId}
      stmts == <<Stmt(ApplyJobCheckSql, <<jobId>>)>>
  IN  IF preCheck = {}
        THEN Effect(stmts, Throw(NotFoundError("No job: " \o ToStr(jobId))), Store)
        ELSE Await(stmts, Store, "preCheck2", <<username, jobId>>)

\* applyToJob, from preCheck2 to its answer
UserApplyCheckUser(username, jobId) ==
  LET preCheck2 == {r \in users : r.username = username}
      stmts == <<Stmt(ApplyUserCheckSql, <<username>>)>>
  IN  IF preCheck2 = {}
        THEN Effect(stmts, Throw(NotFoundError("No username: " \o ToStr(username))), Store)
        ELSE Await(stmts, Store, "apply", <<username, jobId>>)

\* an INSERT into an applications table whose columns reference nothing
ExecInsertApplicationUnreferenced(row) ==
  IF row \in applications THEN Failed(UniqueViolation("applications_pkey"))
  ELSE [ok |-> TRUE, rows |-> {row}, tbl |-> applications \cup {row}]

\* INSERT INTO applications: the pair is the key, and both halves reference
\* a row
ExecInsertApplication(row) ==
  IF ~(\E j \in jobs : j.id = row.job_id) \/ ~(\E u \in users : u.username = row.username)
    THEN Failed(ForeignKeyViolation("applications_fkey"))
  ELSE IF row \in applications THEN Failed(UniqueViolation("applications_pkey"))
  ELSE [ok |-> TRUE, rows |-> {row}, tbl |-> applications \cup {row}]

\* an applyToJob that probes for the application before its INSERT
UserApplyInsertProbed(username, jobId) ==
  LET row == [job_id |-> jobId, username |-> username]
      res == ExecInsertApplication(row)
      probe == Stmt("SELECT job_id FROM applications WHERE job_id = $1 AND username = $2",
                    <<jobId, username>>)
      stmts == <<probe, Stmt(ApplyInsertSql, <<jobId, username>>)>>
  IN  IF row \in applications
        THEN Effect(<<probe>>, Throw(BadRequestError("Duplicate application")), Store)
      ELSE IF ~res.ok THEN Effect(stmts, Throw(res.err), Store)
      ELSE Effect(stmts, Return(Undefined), [Store EXCEPT !.applications = res.tbl])

\* applyToJob, from the INSERT on
UserApplyInsert(username, jobId) ==
  LET res == ExecInsertApplication([job_id |-> jobId, username |-> username])
      stmts == <<Stmt(ApplyInsertSql, <<jobId, username>>)>>
  IN  IF ~res.ok THEN Effect(stmts, Throw(res.err), Store)
      ELSE Effect(stmts, Return(Undefined), [Store EXCEPT !.applications = res.tbl])

DoUserApplyToJob(p, username, jobId) ==
  OneStep(p, "User.applyToJob", <<username, jobId>>, UserApplyToJob(username, jobId))
DoUserApplyCheckUser(p) ==
  /\ pc[p] = "preCheck2"
  /\ Resume(p, "User.applyToJob", "preCheck2", UserApplyCheckUser(local[p][1], local[p][2]))
DoUserApplyInsert(p) ==
  /\ pc[p] = "apply"
  /\ Resume(p, "User.applyToJob", "apply", UserApplyInsert(local[p][1], local[p][2]))

UserAuthenticateSql ==
  "SELECT username, password, first_name AS \"firstName\", last_name AS \"lastName\", email, is_admin AS \"isAdmin\" FROM users WHERE username = $1"

\* a row of users under the names of authenticate's select list
UserRecordWithPassword(r) ==
  <<Prop("username", r.username), Prop("password", r.password),
    Prop("firstName", r.first_name), Prop("lastName", r.last_name),
    Prop("email", r.email), Prop("isAdmin", r.is_admin)>>

\* authenticate that returns the row as it was selected
UserAuthenticateWithPassword(username, password) ==
  LET result_ == {r \in users : r.username = username}
      user == UserRecordWithPassword(First(result_))
      stmts == <<Stmt(UserAuthenticateSql, <<username>>)>>
  IN  IF result_ # {} /\ Compare(ToStr(password), ToStr(Get(user, "password")))
        THEN Effect(stmts, Return(Obj(user)), Store)
        ELSE Effect(stmts, Throw(UnauthorizedError("Invalid username/password")), Store)

UserAuthenticate(username, password) ==
  LET result_ == {r \in users : r.username = username}
      user == UserRecordWithPassword(First(result_))
      stmts == <<Stmt(UserAuthenticateSql, <<username>>)>>
  IN  IF result_ # {} /\ Compare(ToStr(password), ToStr(Get(user, "password")))
        THEN Effect(stmts, Return(Obj(Delete(user, "password"))), Store)
        ELSE Effect(stmts, Throw(UnauthorizedError("Invalid username/password")), Store)

DoUserAuthenticate(p, username, password) ==
  OneStep(p, "User.authenticate", <<username, password>>, UserAuthenticate(username, password))

UserFindAllSql ==
  "SELECT username, first_name AS \"firstName\", last_name AS \"lastName\", email, is_admin AS \"isAdmin\" FROM users ORDER BY username"

UserFindAll ==
  LET rows == OrderBy(users, "username")
  IN  Effect(<<Stmt(UserFindAllSql, <<>>)>>,
             Return(Arr([i \in 1..Len(rows) |-> Obj(UserRecord(rows[i]))])),
             Store)

DoUserFindAll(p) == OneStep(p, "User.findAll", <<>>, UserFindAll)

(***************************************************************************)
(* Inputs.                                                                 *)
(***************************************************************************)
\* the objects of at most maxLen properties drawn from props, no key twice
Objects(props, maxLen) ==
  UNION {{o \in [1..n -> props] : \A i, j \in 1..n : o[i].key = o[j].key => i = j}
         : n \in 0..maxLen}

Numbers == {Num(n) : n \in 0..MaxNum}

\* payloads and mapping tables for direct calls of the helper: those of the
\* helper's tests, the three tables of the repositories, and a field that
\* no table names but every object inherits
SqlProps == [key : {"f1", "jsF2", "constructor"}, val : {Str("v1"), Str("v2")}]
SqlTables ==
  {<<>>, CompanyJsToSql, UserJsToSql,
   <<Prop("f1", Str("f1")), Prop("fF2", Str("f2"))>>,
   <<Prop("jsF2", Str("f2"))>>}

JobUpdateProps == {Prop("title", Str("Teller")), Prop("salary", Num(MaxNum))}
CompanyUpdateProps == {Prop("name", Str("Apex")), Prop("numEmployees", Num(MaxNum))}
UserUpdateProps ==
  {Prop("firstName", Str("Rob")), Prop("password", Str("")), Prop("password", Str("pw2"))}

JobIds == {Num(n) : n \in 1..MaxJobs}
Handles == {Str("acme"), Str("bolt")}
Usernames == {Str("bob"), Str("zed")}

AcmeRow ==
  [handle |-> Str("acme"), name |-> Str("Acme"), description |-> Str("Anvils"),
   num_employees |-> Num(1), logo_url |-> Null]
ClerkRow ==
  [id |-> Num(1), title |-> Str("Clerk"), salary |-> Num(1), equity |-> Str("0"),
   company_handle |-> Str("acme")]
BobRow ==
  [username |-> Str("bob"), password |-> Str(Hash("pw1")), first_name |-> Str("Bob"),
   last_name |-> Str("Ng"), email |-> Str("bob@x.io"), is_admin |-> Bool(FALSE)]

IdleSlots ==
  /\ pc = [p \in Procs |-> "idle"]
  /\ call = [p \in Procs |-> [op |-> "none", args |-> <<>>]]
  /\ invoked = [p \in Procs |-> <<>>]
  /\ local = [p \in Procs |-> <<>>]
  /\ result = [p \in Procs |-> None]
  /\ sent = [p \in Procs |-> <<>>]

\* a store with one organization, one posting of it and one account
InitSeeded ==
  /\ companies = {AcmeRow}
  /\ jobs = {ClerkRow}
  /\ users = {BobRow}
  /\ applications = {}
  /\ nextId = 2
  /\ IdleSlots

(***************************************************************************)
(* SpecSql: the helper called directly, one call after another.            *)
(***************************************************************************)
NextSql ==
  \E data \in Objects(SqlProps, MaxFields), jsToSql \in SqlTables :
    SqlForPartialUpdateCall("r1", data, jsToSql)

SpecSql == InitSeeded /\ [][NextSql]_vars

(***************************************************************************)
(* SpecUpdate: partial updates of the three repositories, one request      *)
(* after another.                                                          *)
(***************************************************************************)
NextUpdate ==
  \/ \E id \in JobIds, data \in Objects(JobUpdateProps, MaxFields) : DoJobUpdate("r1", id, data)
  \/ \E handle \in Handles, data \in Objects(CompanyUpdateProps, MaxFields) :
       DoCompanyUpdate("r1", handle, data)
  \/ \E username \in Usernames, data \in Objects(UserUpdateProps, MaxFields) :
       DoUserUpdate("r1", username, data)

SpecUpdate == InitSeeded /\ [][NextUpdate]_vars

(***************************************************************************)
(* SpecFind: the list queries of organizations and postings, one request   *)
(* after another, over a store of two organizations with a posting each.   *)
(***************************************************************************)
CompanyCriteria ==
  [key : {"minEmployees", "maxEmployees"}, val : Numbers]
    \cup [key : {"name"}, val : {Str(""), Str("net")}]
JobCriteria ==
  [key : {"minSalary"}, val : Numbers]
    \cup [key : {"hasEquity"}, val : {Bool(TRUE), Bool(FALSE)}]
    \cup [key : {"title"}, val : {Str(""), Str("ell")}]

BoltRow ==
  [handle |-> Str("bolt"), name |-> Str("Boltnet"), description |-> Str("Bolts"),
   num_employees |-> Num(2), logo_url |-> Str("/logo.png")]
TellerRow ==
  [id |-> Num(2), title |-> Str("Teller"), salary |-> Num(2), equity |-> Str("0.5"),
   company_handle |-> Str("bolt")]

InitFind ==
  /\ companies = {AcmeRow, BoltRow}
  /\ jobs = {ClerkRow, TellerRow}
  /\ users = {BobRow}
  /\ applications = {}
  /\ nextId = 3
  /\ IdleSlots

\* a list query reads the store and leaves it as it was, so what a request
\* gets does not depend on the requests before it: a behaviour makes one
FirstRequest(p) == call[p].op = "none"

NextFind ==
  \/ \E q \in Objects(CompanyCriteria, 3) : FirstRequest("r1") /\ DoCompanyFindAll("r1", q)
  \/ \E q \in Objects(JobCriteria, 3) : FirstRequest("r1") /\ DoJobFindAll("r1", q)

SpecFind == InitFind /\ [][NextFind]_vars

(***************************************************************************)
(* SpecFrame: updates of postings and organizations, one request after     *)
(* another, over a store of two organizations with a posting each.         *)
(***************************************************************************)
NextFrame ==
  \/ \E id \in JobIds, data \in Objects(JobUpdateProps, MaxFields) \ {<<>>} :
       DoJobUpdate("r1", id, data)
  \/ \E handle \in Handles, data \in Objects(CompanyUpdateProps, MaxFields) \ {<<>>} :
       DoCompanyUpdate("r1", handle, data)

SpecFrame == InitFind /\ [][NextFrame]_vars

(***************************************************************************)
(* SpecKeys: getOne, update and remove of the three repositories, one      *)
(* request after another, over a store of one organization, its posting    *)
(* and one account, with keys of rows that are there and of rows that are  *)
(* not.                                                                    *)
(***************************************************************************)
NextKeys ==
  \/ \E id \in JobIds, data \in Objects(JobUpdateProps, 1) \ {<<>>} :
       DoJobUpdate("r1", id, data)
  \/ \E handle \in Handles, data \in Objects(CompanyUpdateProps, 1) \ {<<>>} :
       DoCompanyUpdate("r1", handle, data)
  \/ \E username \in Usernames, data \in Objects(UserUpdateProps, 1) \ {<<>>} :
       DoUserUpdate("r1", username, data)
  \/ \E id \in JobIds : DoJobGet("r1", id)
  \/ DoJobGetCompany("r1")
  \/ \E handle \in Handles : DoCompanyGet("r1", handle)
  \/ DoCompanyGetJobs("r1")
  \/ \E username \in Usernames : DoUserGet("r1", username)
  \/ DoUserGetApplications("r1")
  \/ \E id \in JobIds, onDelete \in OnDelete : DoJobRemove("r1", id, onDelete)
  \/ \E handle \in Handles, onDelete \in OnDelete : DoCompanyRemove("r1", handle, onDelete)
  \/ \E username \in Usernames, onDelete \in OnDelete : DoUserRemove("r1", username, onDelete)

SpecKeys == InitSeeded /\ [][NextKeys]_vars

(***************************************************************************)
(* Spec: two requests at a time creating and reading organizations,        *)
(* postings and accounts in a store that starts empty; the round trips of  *)
(* the two requests interleave.                                            *)
(***************************************************************************)
CompanyInputs ==
  {<<Prop("handle", Str("acme")), Prop("name", Str("Acme")), Prop("description", Str("Anvils")),
     Prop("numEmployees", n), Prop("logoUrl", Null)>> : n \in {Num(1), Num(MaxNum)}}
JobInputs ==
  {<<Prop("title", Str("Clerk")), Prop("salary", Num(MaxNum)), Prop("equity", Str("0")),
     Prop("companyHandle", h)>> : h \in Handles}
UserInputs ==
  {<<Prop("username", Str("bob")), Prop("password", pw), Prop("firstName", Str("Bob")),
     Prop("lastName", Str("Ng")), Prop("email", Str("bob@x.io")), Prop("isAdmin", Bool(FALSE))>>
     : pw \in {Str("pw1"), Str("pw2")}}

Init ==
  /\ companies = {}
  /\ jobs = {}
  /\ users = {}
  /\ applications = {}
  /\ nextId = 1
  /\ IdleSlots

Next ==
  \E p \in Procs :
    \/ \E data \in CompanyInputs : DoCompanyCreate(p, data)
    \/ DoCompanyCreateInsert(p)
    \/ DoCompanyGet(p, Str("acme"))
    \/ DoCompanyGetJobs(p)
    \/ \E data \in JobInputs : DoJobCreate(p, data)
    \/ \E id \in JobIds : DoJobGet(p, id)
    \/ DoJobGetCompany(p)
    \/ \E data \in UserInputs : DoUserRegister(p, data)
    \/ DoUserRegisterInsert(p)
    \/ DoUserGet(p, Str("bob"))
    \/ DoUserGetApplications(p)

Spec == Init /\ [][Next]_vars

(***************************************************************************)
(* SpecUser: one request at a time on the accounts, from an empty store:   *)
(* register, update with every payload over UserPatchProps, authenticate,  *)
(* findAll and get.                                                        *)
(***************************************************************************)
Secrets == {Str("pw1"), Str("pw2"), Str("")}

UserPatchProps == UserUpdateProps \cup {Prop("username", Str("rob"))}

UserKeys == {Str("bob"), Str("rob")}

NextUser ==
  \E p \in {"r1"} :
    \/ \E data \in UserInputs : DoUserRegister(p, data)
    \/ DoUserRegisterInsert(p)
    \/ \E username \in UserKeys, data \in Objects(UserPatchProps, MaxFields) :
         DoUserUpdate(p, username, data)
    \/ \E username \in UserKeys, password \in Secrets : DoUserAuthenticate(p, username, password)
    \/ DoUserFindAll(p)
    \/ \E username \in UserKeys : DoUserGet(p, username)
    \/ DoUserGetApplications(p)

SpecUser == Init /\ [][NextUser]_vars

(***************************************************************************)
(* routes/companies.js, routes/jobs.js, routes/users.js: the handlers.     *)
(* A request is the route, the parameters of its URL, its body or query    *)
(* and, for a route that validates, what jsonschema.validate says of it.   *)
(***************************************************************************)

\* return next(err)
Forwarded(err) == [ok |-> FALSE, kind |-> "next", err |-> err]
\* return res.status(status).json(body)
Json(status, body) == [ok |-> TRUE, kind |-> "json", status |-> status, val |-> body]

Validating ==
  {"POST /companies", "GET /companies", "PATCH /companies/:handle",
   "POST /jobs", "GET /jobs", "PATCH /jobs/:id",
   "POST /users", "PATCH /users/:username"}

\* the operation of the repository a route calls
Operation(route) ==
  CASE route = "POST /companies" -> "Company.create"
    [] route = "GET /companies" -> "Company.findAll"
    [] route = "GET /companies/:handle" -> "Company.get"
    [] route = "PATCH /companies/:handle" -> "Company.update"
    [] route = "DELETE /companies/:handle" -> "Company.remove"
    [] route = "POST /jobs" -> "Job.create"
    [] route = "GET /jobs" -> "Job.findAll"
    [] route = "PATCH /jobs/:id" -> "Job.update"
    [] route = "DELETE /jobs/:id" -> "Job.remove"
    [] route = "POST /users" -> "User.register"
    [] route = "GET /users" -> "User.findAll"
    [] route = "PATCH /users/:username" -> "User.update"
    [] route = "DELETE /users/:username" -> "User.remove"

\* +value, for the texts of digits that the queries and URLs of the model hold
Plus(v) == IF v.kind = "string" THEN Num(ParseNat(v.s)) ELSE v

\* if (q.minEmployees !== undefined) q.minEmployees = +q.minEmployees; the
\* same for maxEmployees
CompanyQuery(q) ==
  LET q1 == IF Get(q, "minEmployees").kind # "undefined"
              THEN Set(q, "minEmployees", Plus(Get(q, "minEmployees"))) ELSE q
  IN  IF Get(q1, "maxEmployees").kind # "undefined"
        THEN Set(q1, "maxEmployees", Plus(Get(q1, "maxEmployees"))) ELSE q1

\* if (q.minSalary !== undefined) q.minSalary = +q.minSalary;
\* q.hasEquity = q.hasEquity === "true"
JobQuery(q) ==
  LET q1 == IF Get(q, "minSalary").kind # "undefined"
              THEN Set(q, "minSalary", Plus(Get(q, "minSalary"))) ELSE q
  IN  Set(q1, "hasEquity", Bool(Get(q1, "hasEquity") = Str("true")))

\* helpers/tokens.js is not part of the sources: a token is a text made
\* from the account
createToken(user) == Str("jwt." \o ToStr(Get(user.o, "username")))

\* the body of the response, from what the operation returned
Body(route, args, val) ==
  CASE route \in {"POST /companies", "GET /companies/:handle", "PATCH /companies/:handle"} ->
         <<Prop("company", val)>>
    [] route = "GET /companies" -> <<Prop("companies", val)>>
    [] route = "DELETE /companies/:handle" -> <<Prop("deleted", args[1])>>
    [] route \in {"POST /jobs", "PATCH /jobs/:id"} -> <<Prop("job", val)>>
    [] route = "GET /jobs" -> <<Prop("jobs", val)>>
    [] route = "DELETE /jobs/:id" -> <<Prop("deleted", Plus(args[1]))>>
    [] route = "POST /users" -> <<Prop("user", val), Prop("token", createToken(val))>>
    [] route = "GET /users" -> <<Prop("users", val)>>
    [] route = "PATCH /users/:username" -> <<Prop("user", val)>>
    [] route = "DELETE /users/:username" -> <<Prop("deleted", args[1])>>

Status(route) == IF route \in {"POST /companies", "POST /jobs", "POST /users"} THEN 201 ELSE 200

\* a handler that answers 200 with the error when the operation throws
HandleSwallowing(route, args, eff) ==
  [eff EXCEPT !.outcome =
     IF @.kind = "none" THEN @
     ELSE Json(200, Obj(IF @.kind = "throw" THEN <<Prop("error", Str(@.err.name))>>
                                             ELSE Body(route, args, @.val)))]

\* try { ... await ...; return res.json(...) } catch (err) { return next(err) }
Handle(route, args, eff) ==
  [eff EXCEPT !.outcome =
     IF @.kind = "throw" THEN Forwarded(@.err)
     ELSE IF @.kind = "return" THEN Json(Status(route), Obj(Body(route, args, @.val)))
     ELSE @]

\* const errs = validator.errors.map(e => e.stack); throw new BadRequestError(errs)
Rejected(validator) ==
  Effect(<<>>,
         Forwarded(BadRequestError([i \in 1..Len(validator.errors) |-> validator.errors[i].stack])),
         Store)

\* a handler that goes on to the operation whatever the validator said
ValidatedAnyway(route, args, validator, eff) ==
  [ops |-> <<Operation(route)>>, eff |-> Handle(route, args, eff)]

\* the handler up to its await: if (!validator.valid) { ... throw ... }, and
\* the call of the operation, which does eff
Validated(route, args, validator, eff) ==
  IF route \in Validating /\ ~validator.valid
    THEN [ops |-> <<>>, eff |-> Rejected(validator)]
    ELSE [ops |-> <<Operation(route)>>, eff |-> Handle(route, args, eff)]

\* a request comes in; what the validator said of it is kept with it
Route(p, route, args, validator, eff) ==
  LET handled == Validated(route, args, validator, eff)
  IN  Enter(p, route, <<args, validator>>, handled.ops, handled.eff)

\* a request that waits for a statement's answer goes on
RouteResume(p, route, at, eff) ==
  LET handled == Handle(route, call[p].args[1], eff)
  IN  /\ pc[p] = at
      /\ Resume(p, route, at, handled)

\* jsonschema.validate against schemas/jobUpdate.json: title is required
\* and a string of 1 to 30 characters, salary an integer of 0 or more,
\* equity a string in which 0 or a point and a digit is found
jobUpdateSchema(instance) ==
  LET title == Get(instance, "title")
      salary == Get(instance, "salary")
      equity == Get(instance, "equity")
      Err(cond, stack) == IF cond THEN <<[stack |-> stack]>> ELSE <<>>
      errors ==
        Err(~HasOwn(instance, "title"), "instance requires property \"title\"")
        \o Err(HasOwn(instance, "title") /\ title.kind # "string",
               "instance.title is not of a type(s) string")
        \o Err(title.kind = "string" /\ Len(title.s) < 1,
               "instance.title does not meet minimum length of 1")
        \o Err(title.kind = "string" /\ Len(title.s) > 30,
               "instance.title does not meet maximum length of 30")
        \o Err(HasOwn(instance, "salary") /\ salary.kind # "number",
               "instance.salary is not of a type(s) integer")
        \o Err(salary.kind = "number" /\ salary.n < 0,
               "instance.salary must be greater than or equal to 0")
        \o Err(HasOwn(instance, "equity") /\ equity.kind # "string",
               "instance.equity is not of a type(s) string")
        \o Err(equity.kind = "string" /\ ~Contains(equity.s, "0")
                 /\ ~(\E i \in 1..(Len(equity.s) - 1) :
                        /\ SubSeq(equity.s, i, i) = "."
                        /\ IndexOf("0123456789", SubSeq(equity.s, i + 1, i + 1)) # 0),
               "instance.equity does not match pattern \"0|(0?\\\\.[0-9]+)\"")
  IN  [valid |-> errors = <<>>, errors |-> errors]

\* the other schemas are not part of the sources: the validator accepts an
\* instance, or rejects it with one message or more
Verdicts ==
  {[valid |-> TRUE, errors |-> <<>>],
   [valid |-> FALSE, errors |-> <<[stack |-> "instance requires property \"name\""]>>],
   [valid |-> FALSE, errors |-> <<[stack |-> "instance.name is not of a type(s) string"],
                                  [stack |-> "instance is not allowed to have the additional property \"x\""]>>]}

\* the route does not validate
NoVerdict == [valid |-> TRUE, errors |-> <<>>]

\* the id of a URL is text, which the database reads as the integer it is
\* compared with
DoPostCompanies(p, body, validator) ==
  Route(p, "POST /companies", <<Obj(body)>>, validator, CompanyCreate(body))
DoPostCompaniesInsert(p) ==
  RouteResume(p, "POST /companies", "insert", CompanyCreateInsert(local[p]))
DoGetCompanies(p, q, validator) ==
  Route(p, "GET /companies", <<Obj(q)>>, validator, CompanyFindAll(CompanyQuery(q)))
DoGetCompany(p, handle) ==
  Route(p, "GET /companies/:handle", <<handle>>, NoVerdict, CompanyGet(handle))
DoGetCompanyJobs(p) ==
  RouteResume(p, "GET /companies/:handle", "jobs", CompanyGetJobs(local[p]))
DoPatchCompany(p, handle, body, validator) ==
  Route(p, "PATCH /companies/:handle", <<handle, Obj(body)>>, validator,
        CompanyUpdate(handle, body))
DoDeleteCompany(p, handle, onDelete) ==
  Route(p, "DELETE /companies/:handle", <<handle>>, NoVerdict, CompanyRemove(handle, onDelete))
DoPostJobs(p, body, validator) ==
  /\ nextId <= MaxJobs
  /\ Route(p, "POST /jobs", <<Obj(body)>>, validator, JobCreate(body))
DoGetJobs(p, q, validator) ==
  Route(p, "GET /jobs", <<Obj(q)>>, validator, JobFindAll(JobQuery(q)))
DoPatchJob(p, id, body) ==
  Route(p, "PATCH /jobs/:id", <<id, Obj(body)>>, jobUpdateSchema(body), JobUpdate(Plus(id), body))
DoDeleteJob(p, id, onDelete) ==
  Route(p, "DELETE /jobs/:id", <<id>>, NoVerdict, JobRemove(Plus(id), onDelete))
DoPostUsers(p, body, validator) ==
  Route(p, "POST /users", <<Obj(body)>>, validator, UserRegister(body))
DoPostUsersInsert(p) ==
  RouteResume(p, "POST /users", "insert", UserRegisterInsert(local[p]))
DoGetUsers(p) == Route(p, "GET /users", <<>>, NoVerdict, UserFindAll)
DoPatchUser(p, username, body, validator) ==
  Route(p, "PATCH /users/:username", <<username, Obj(body)>>, validator,
        UserUpdate(username, body))
DoDeleteUser(p, username, onDelete) ==
  Route(p, "DELETE /users/:username", <<username>>, NoVerdict, UserRemove(username, onDelete))

(***************************************************************************)
(* SpecRoutes: a request through the handlers, over a store that holds or  *)
(* does not hold the organization, its posting and the account.  A handler *)
(* keeps nothing between requests but the store, so a behaviour makes one  *)
(* request, from each of the stores.                                       *)
(***************************************************************************)
InitRoutes ==
  /\ companies \in {{}, {AcmeRow}}
  /\ jobs \in {{}, {ClerkRow}}
  /\ \A j \in jobs : \E c \in companies : c.handle = j.company_handle
  /\ users \in {{}, {BobRow}}
  /\ applications = {}
  /\ nextId = 2
  /\ IdleSlots

CompanyQueryProps ==
  [key : {"minEmployees", "maxEmployees"}, val : {Str("1"), Str("2")}]
    \cup {Prop("name", Str("net"))}
JobQueryProps ==
  {Prop("minSalary", Str("1")), Prop("hasEquity", Str("true")), Prop("hasEquity", Str("false")),
   Prop("title", Str("ell"))}
JobPatchProps ==
  {Prop("title", Str("Teller")), Prop("title", Str("")), Prop("salary", Num(MaxNum)),
   Prop("salary", Str("x")), Prop("equity", Str("0.5")), Prop("equity", Str("x"))}
UrlIds == {Str("1"), Str("2")}

NextRoutes ==
  \E p \in {"r1"} :
    \/ \E body \in CompanyInputs, validator \in Verdicts :
         FirstRequest(p) /\ DoPostCompanies(p, body, validator)
    \/ DoPostCompaniesInsert(p)
    \/ \E q \in Objects(CompanyQueryProps, 2), validator \in Verdicts :
         FirstRequest(p) /\ DoGetCompanies(p, q, validator)
    \/ \E handle \in Handles : FirstRequest(p) /\ DoGetCompany(p, handle)
    \/ DoGetCompanyJobs(p)
    \/ \E handle \in Handles, body \in Objects(CompanyUpdateProps, MaxFields), validator \in Verdicts :
         FirstRequest(p) /\ DoPatchCompany(p, handle, body, validator)
    \/ \E handle \in Handles, onDelete \in OnDelete :
         FirstRequest(p) /\ DoDeleteCompany(p, handle, onDelete)
    \/ \E body \in JobInputs, validator \in Verdicts :
         FirstRequest(p) /\ DoPostJobs(p, body, validator)
    \/ \E q \in Objects(JobQueryProps, 2), validator \in Verdicts :
         FirstRequest(p) /\ DoGetJobs(p, q, validator)
    \/ \E id \in UrlIds, body \in Objects(JobPatchProps, MaxFields) :
         FirstRequest(p) /\ DoPatchJob(p, id, body)
    \/ \E id \in UrlIds, onDelete \in OnDelete : FirstRequest(p) /\ DoDeleteJob(p, id, onDelete)
    \/ \E body \in UserInputs, validator \in Verdicts :
         FirstRequest(p) /\ DoPostUsers(p, body, validator)
    \/ DoPostUsersInsert(p)
    \/ FirstRequest(p) /\ DoGetUsers(p)
    \/ \E username \in Usernames, body \in Objects(UserUpdateProps, MaxFields), validator \in Verdicts :
         FirstRequest(p) /\ DoPatchUser(p, username, body, validator)
    \/ \E username \in Usernames, onDelete \in OnDelete :
         FirstRequest(p) /\ DoDeleteUser(p, username, onDelete)

SpecRoutes == InitRoutes /\ [][NextRoutes]_vars

(***************************************************************************)
(* SpecRace: two requests at a time reading, deleting, applying and        *)
(* creating the organization anew, over a store of one organization, its   *)
(* posting and one account; the round trips of the two requests interleave.*)
(***************************************************************************)
NextRace ==
  \E p \in Procs :
    \/ \E id \in JobIds : DoJobGet(p, id)
    \/ DoJobGetCompany(p)
    \/ DoCompanyGet(p, Str("acme"))
    \/ DoCompanyGetJobs(p)
    \/ DoUserGet(p, Str("bob"))
    \/ DoUserGetApplications(p)
    \/ \E id \in JobIds, onDelete \in OnDelete : DoJobRemove(p, id, onDelete)
    \/ \E onDelete \in OnDelete : DoCompanyRemove(p, Str("acme"), onDelete)
    \/ \E onDelete \in OnDelete : DoUserRemove(p, Str("bob"), onDelete)
    \/ \E username \in Usernames, id \in JobIds : DoUserApplyToJob(p, username, id)
    \/ DoUserApplyCheckUser(p)
    \/ DoUserApplyInsert(p)
    \/ \E data \in {d \in CompanyInputs : Get(d, "numEmployees") = Num(1)} : DoCompanyCreate(p, data)
    \/ DoCompanyCreateInsert(p)

SpecRace == InitSeeded /\ [][NextRace]_vars

(***************************************************************************)
(* SpecUnique: two requests at a time creating, renaming and deleting      *)
(* organizations and accounts, from an empty store; the round trips of the *)
(* two requests interleave.  An update here names the key column in its    *)
(* payload, so that it moves a row onto a key another row may hold.        *)
(***************************************************************************)
CompanyRename == <<Prop("handle", Str("bolt"))>>
UserRename == <<Prop("username", Str("rob"))>>

NextUnique ==
  \E p \in Procs :
    \/ \E data \in CompanyInputs : DoCompanyCreate(p, data)
    \/ DoCompanyCreateInsert(p)
    \/ DoCompanyUpdate(p, Str("acme"), CompanyRename)
    \/ \E handle \in Handles, onDelete \in OnDelete : DoCompanyRemove(p, handle, onDelete)
    \/ \E data \in UserInputs : DoUserRegister(p, data)
    \/ DoUserRegisterInsert(p)
    \/ DoUserUpdate(p, Str("bob"), UserRename)
    \/ \E username \in UserKeys, onDelete \in OnDelete : DoUserRemove(p, username, onDelete)

SpecUnique == Init /\ [][NextUnique]_vars

(***************************************************************************)
(* Properties of the partial-update builder and of the updates.            *)
(***************************************************************************)
\* the error the spec calls BadInput
IsBadInput(outcome) == outcome.kind = "throw" /\ outcome.err.name = "BadRequestError"

IsUpdate(c) == c.op \in {"Job.update", "Company.update", "User.update"}

EmptyUpdate(c) == IsUpdate(c) /\ c.args[2] = Obj(<<>>)

EmptyPayloadRejected ==
  /\ \A t \in SqlTables : IsBadInput(sqlForPartialUpdate(<<>>, t))
  /\ \A p \in Procs : EmptyUpdate(call[p]) => IsBadInput(result[p]) /\ sent[p] = <<>>

\* the step of slot p's call `c` from an idle slot
Calls(p) ==
  /\ pc[p] = "idle"
  /\ <<call[p], sent[p], result[p], pc[p]>>' # <<call[p], sent[p], result[p], pc[p]>>

EmptyUpdateKeepsStore ==
  \A p \in Procs : Calls(p) /\ EmptyUpdate(call'[p]) => store' = store

\* C1: sqlForPartialUpdate with a payload of zero entries fails with
\* BadInput for every mapping table, and an update(key, {}) of Job, Company
\* or User sends no statement and leaves the store as it was.
C1_EmptyPayload == []EmptyPayloadRejected /\ [][EmptyUpdateKeepsStore]_vars

\* an empty update of an organization is rejected in a store that earlier
\* updates have changed
C1_Witness ==
  /\ call["r1"].op = "Company.update"
  /\ call["r1"].args[2] = Obj(<<>>)
  /\ IsBadInput(result["r1"])
  /\ sent["r1"] = <<>>
  /\ companies # {AcmeRow}

\* the column the field mapper names: the table's value for a name that is
\* a key of the table, the name itself otherwise
ColumnOf(jsToSql, colName) ==
  IF HasOwn(jsToSql, colName) THEN ToStr(Get(jsToSql, colName)) ELSE colName

AssignmentsAsStated(data, jsToSql, built) ==
  LET setCols == Split(Get(built.val.o, "setCols").s, ", ")
      values == Get(built.val.o, "values")
  IN  /\ Len(setCols) = Len(data)
      /\ \A i \in 1..Len(data) :
           setCols[i] = "\"" \o ColumnOf(jsToSql, data[i].key) \o "\"=$" \o ToString(i)
      /\ values = Arr([i \in 1..Len(data) |-> data[i].val])

\* C2: for a payload of n >= 1 fields and any mapping table the helper
\* returns n assignments joined by ", ", the i-th being "<column>"=$i with
\* <column> the table's value for the i-th field name when the name is a key
\* of the table and the field name otherwise, and the values list echoes the
\* payload's values in order.
C2_AssignmentsAsStated ==
  \A p \in Procs :
    call[p].op = "sqlForPartialUpdate" /\ Len(call[p].args[1].o) > 0 =>
      /\ result[p].kind = "return"
      /\ AssignmentsAsStated(call[p].args[1].o, call[p].args[2].o, result[p])

(***************************************************************************)
(* Properties of the list queries.                                         *)
(***************************************************************************)
IsFindAll(c) == c.op \in {"Company.findAll", "Job.findAll"}

\* the criteria a list query knows
Recognized(op) ==
  IF op = "Company.findAll" THEN {"minEmployees", "maxEmployees", "name"}
  ELSE {"minSalary", "hasEquity", "title"}

\* the criteria that carry a parameter, in the order the code tests them
ParamOrder(op) ==
  IF op = "Company.findAll" THEN <<"minEmployees", "maxEmployees", "name">>
  ELSE <<"minSalary", "title">>

\* the criteria that have a value
PresentKeys(op, q) == {k \in Recognized(op) : Get(q, k).kind # "undefined"}

\* the criteria the code's tests let through: a bound that is not undefined,
\* a pattern that is not empty, an equity flag that is true
EffectiveKeys(op, q) ==
  {k \in Recognized(op) :
     CASE k \in {"name", "title"} -> Truthy(Get(q, k))
       [] k = "hasEquity" -> Get(q, k) = Bool(TRUE)
       [] OTHER -> Get(q, k).kind # "undefined"}

\* the predicate of a criterion, up to its placeholder's number
Lhs(k) ==
  CASE k = "minEmployees" -> "num_employees >= $"
    [] k = "maxEmployees" -> "num_employees <= $"
    [] k = "name" -> "name ILIKE $"
    [] k = "minSalary" -> "salary >= $"
    [] k = "title" -> "title ILIKE $"
    [] OTHER -> "equity > 0"

ParamOf(q, k) ==
  IF k \in {"name", "title"} THEN Str("%" \o ToStr(Get(q, k)) \o "%") ELSE Get(q, k)

\* the parameter-bearing criteria among keys, in the code's order
Bearing(op, keys) == SelectSeq(ParamOrder(op), LAMBDA k : k \in keys)

ExpectedParams(op, q) ==
  LET ks == Bearing(op, EffectiveKeys(op, q))
  IN  [i \in 1..Len(ks) |-> ParamOf(q, ks[i])]

\* the statements a list query sends for criteria q
FindAllStmts(op, q) ==
  IF op = "Company.findAll" THEN CompanyFindAll(q).stmts ELSE JobFindAll(q).stmts

\* the criteria objects with q's field names in q's order
SameNames(op, q) ==
  {q2 \in Objects(IF op = "Company.findAll" THEN CompanyCriteria ELSE JobCriteria, 3) :
     Keys(q2) = Keys(q)}

\* a finished list query that sent its statement
Listed(p) == IsFindAll(call[p]) /\ Len(sent[p]) = 1

UpdateTextIgnoresValues ==
  \A t \in SqlTables : \A d1, d2 \in Objects(SqlProps, MaxFields) :
    Len(d1) > 0 /\ Keys(d1) = Keys(d2) =>
      Get(sqlForPartialUpdate(d1, t).val.o, "setCols")
        = Get(sqlForPartialUpdate(d2, t).val.o, "setCols")

\* C3 as stated: two calls with the same field names in the same order
\* (hence the same set of present criteria) that differ only in the values
\* send the same statement text.
C3_TextIgnoresValues ==
  /\ UpdateTextIgnoresValues
  /\ \A p \in Procs : Listed(p) =>
       \A q2 \in SameNames(call[p].op, call[p].args[1].o) :
         LET other == FindAllStmts(call[p].op, q2)
         IN  Len(other) = 1 => other[1].text = sent[p][1].text

\* C3: the statement text never depends on the supplied values: two calls
\* with the same field names in the same order whose criteria pass the same
\* tests of the code (bound not undefined, pattern not empty, equity flag
\* true) send the same text, and the values travel in the parameter list
\* only, in the code's order.
C3_TextIgnoresValuesOfEffective ==
  /\ UpdateTextIgnoresValues
  /\ \A p \in Procs : Listed(p) =>
       LET op == call[p].op
           q == call[p].args[1].o
       IN  /\ sent[p][1].params = ExpectedParams(op, q)
           /\ \A q2 \in SameNames(op, q) :
                LET other == FindAllStmts(op, q2)
                IN  Len(other) = 1 /\ EffectiveKeys(op, q2) = EffectiveKeys(op, q)
                      => other[1].text = sent[p][1].text

\* organizations listed with a lower bound of 0 and a name pattern: both
\* values are in the parameter list
C3_Witness ==
  /\ call["r1"].op = "Company.findAll"
  /\ Get(call["r1"].args[1].o, "minEmployees") = Num(0)
  /\ Get(call["r1"].args[1].o, "name") = Str("net")
  /\ Len(sent["r1"]) = 1
  /\ sent["r1"][1].params = <<Num(0), Str("%net%")>>

\* C4: Company.findAll with a minimum above the maximum fails with
\* BadInput and sends no statement, whatever other criteria are present.
C4_RangeChecked ==
  \A p \in Procs :
    /\ call[p].op = "Company.findAll"
    /\ Get(call[p].args[1].o, "minEmployees").kind = "number"
    /\ Get(call[p].args[1].o, "maxEmployees").kind = "number"
    /\ Get(call[p].args[1].o, "minEmployees").n > Get(call[p].args[1].o, "maxEmployees").n
    => IsBadInput(result[p]) /\ sent[p] = <<>>

\* a list query with minimum above maximum and a name pattern was rejected
C4_Witness ==
  /\ call["r1"].op = "Company.findAll"
  /\ Get(call["r1"].args[1].o, "minEmployees") = Num(MaxNum)
  /\ Get(call["r1"].args[1].o, "maxEmployees") = Num(1)
  /\ Get(call["r1"].args[1].o, "name") = Str("net")
  /\ IsBadInput(result["r1"])
  /\ sent["r1"] = <<>>

\* the statement has one predicate for each criterion of keys and no other,
\* and one parameter for each of them that bears one
OnePredicateEach(op, keys, stmt) ==
  /\ Len(WherePredicates(stmt.text)) = Cardinality(keys)
  /\ \A k \in Recognized(op) : Count(stmt.text, Lhs(k)) = IF k \in keys THEN 1 ELSE 0
  /\ Len(stmt.params) = Len(Bearing(op, keys))

\* C5 as stated: every recognized criterion whose value is not undefined
\* appends one predicate (and one parameter, but for the equity flag), an
\* absent criterion appends nothing.
C5_OnePredicatePerPresent ==
  \A p \in Procs : Listed(p) =>
    OnePredicateEach(call[p].op, PresentKeys(call[p].op, call[p].args[1].o), sent[p][1])

\* C5: every recognized criterion that passes the code's test (a bound that
\* is not undefined, a pattern that is not the empty string, an equity flag
\* that is true) appends one predicate, and one parameter unless it is the
\* equity flag; every other criterion, absent or not, appends nothing.
C5_OnePredicatePerEffective ==
  \A p \in Procs : Listed(p) =>
    OnePredicateEach(call[p].op, EffectiveKeys(call[p].op, call[p].args[1].o), sent[p][1])

\* postings listed with a salary bound, the equity flag false and an empty
\* title: one predicate, one parameter
C5_Witness ==
  /\ call["r1"].op = "Job.findAll"
  /\ Get(call["r1"].args[1].o, "minSalary") = Num(1)
  /\ Get(call["r1"].args[1].o, "hasEquity") = Bool(FALSE)
  /\ Get(call["r1"].args[1].o, "title") = Str("")
  /\ Len(sent["r1"]) = 1
  /\ WherePredicates(sent["r1"][1].text) = <<"salary >= $1">>
  /\ sent["r1"][1].params = <<Num(1)>>

Emitted(op, q) ==
  IF op = "Company.findAll"
    THEN CompanyFilters(Get(q, "minEmployees"), Get(q, "maxEmployees"), Get(q, "name")).whereExpressions
    ELSE JobFilters(Get(q, "minSalary"), Get(q, "hasEquity"), Get(q, "title")).whereExpressions

\* C7: a list query's statement has a WHERE clause exactly when a predicate
\* was emitted; with no criteria there is no WHERE and no parameter; several
\* predicates are joined by AND and by nothing else.
C7_WhereIffPredicates ==
  \A p \in Procs : Listed(p) =>
    LET op == call[p].op
        q == call[p].args[1].o
        text == sent[p][1].text
        n == Len(Emitted(op, q))
    IN  /\ Contains(text, " WHERE ") <=> n > 0
        /\ Count(text, "WHERE") = IF n > 0 THEN 1 ELSE 0
        /\ q = <<>> => ~Contains(text, "WHERE") /\ sent[p][1].params = <<>>
        /\ Count(text, " AND ") = IF n > 0 THEN n - 1 ELSE 0
        /\ ~Contains(text, " OR ")
        /\ ~Contains(text, " NOT ")
        /\ ~Contains(text, "(")
        /\ n > 0 => WherePredicates(text) = Emitted(op, q)

\* organizations listed under all three criteria: three predicates, two ANDs
C7_Witness ==
  /\ call["r1"].op = "Company.findAll"
  /\ Len(sent["r1"]) = 1
  /\ Len(WherePredicates(sent["r1"][1].text)) = 3
  /\ Count(sent["r1"][1].text, " AND ") = 2
  /\ Len(sent["r1"][1].params) = 3

(***************************************************************************)
(* Properties of create and get under interleaving.                        *)
(***************************************************************************)
\* the error the spec calls Conflict: the duplicate error of create and
\* register
IsConflict(outcome) ==
  /\ outcome.kind = "throw"
  /\ outcome.err.name = "BadRequestError"
  /\ SubSeq(outcome.err.message, 1, 9) = "Duplicate"

\* the call c creates a row whose identity a row of the store has already
DuplicateOf(c) ==
  \/ c.op = "Company.create" /\ \E r \in companies : r.handle = Get(c.args[1].o, "handle")
  \/ c.op = "User.register" /\ \E r \in users : r.username = Get(c.args[1].o, "username")

ProbeOnly(stmts) ==
  /\ Len(stmts) = 1
  /\ stmts[1].text \in {CompanyDuplicateCheckSql, UserDuplicateCheckSql}

DuplicateRejected ==
  \A p \in Procs : Calls(p) /\ DuplicateOf(call'[p]) =>
    /\ IsConflict(result'[p])
    /\ pc'[p] = "idle"
    /\ ProbeOnly(sent'[p])
    /\ store' = store

\* C8: Company.create and User.register called with a handle or username
\* that has a row fail with Conflict after the probe, send no INSERT and
\* leave the store, and with it the existing row, as it was.
C8_DuplicateRejected == [][DuplicateRejected]_vars

\* one request got Conflict for an organization and the other for an
\* account, each having sent its probe only
C8_Witness ==
  /\ call["r1"].op = "Company.create"
  /\ IsConflict(result["r1"])
  /\ ProbeOnly(sent["r1"])
  /\ call["r2"].op = "User.register"
  /\ IsConflict(result["r2"])
  /\ ProbeOnly(sent["r2"])
  /\ Cardinality(companies) = 1
  /\ Cardinality(users) = 1

\* C9: of two concurrent Company.create calls for one handle one succeeds
\* and the other fails with Conflict under every interleaving of their
\* round trips: a Company.create that fails, fails with Conflict, also when
\* it lost the race and its INSERT met the uniqueness of the handle.
C9_LostRaceIsConflict ==
  \A p \in Procs :
    call[p].op = "Company.create" /\ result[p].kind = "throw" => IsConflict(result[p])

\* the fields of the create input that getOne is to give back
InputFields(op) ==
  CASE op = "Company.create" -> {"handle", "name", "description", "numEmployees", "logoUrl"}
    [] op = "Job.create" -> {"title", "salary", "equity", "companyHandle"}
    [] OTHER -> {"username", "firstName", "lastName", "email", "isAdmin"}

GetOf(op) ==
  CASE op = "Company.create" -> "Company.get"
    [] op = "Job.create" -> "Job.get"
    [] OTHER -> "User.get"

IdentityField(op) ==
  CASE op = "Company.create" -> "handle"
    [] op = "Job.create" -> "id"
    [] OTHER -> "username"

AssociationField(op) == IF op = "Job.create" THEN "company" ELSE "jobs"

IsCreate(c) == c.op \in {"Company.create", "Job.create", "User.register"}

\* slot c holds a create that succeeded; slot g a getOne of the identity
\* that create returned
GetsCreated(c, g) ==
  /\ IsCreate(call[c])
  /\ result[c].kind = "return"
  /\ call[g].op = GetOf(call[c].op)
  /\ call[g].args[1] = Get(result[c].val.o, IdentityField(call[c].op))

\* the record got has the fields `fields` of the create input, with the
\* input's values, and the association
GivesBack(c, g, fields) ==
  /\ \A f \in fields :
       /\ HasOwn(result[g].val.o, f)
       /\ Get(result[g].val.o, f) = Get(call[c].args[1].o, f)
  /\ HasOwn(result[g].val.o, AssociationField(call[c].op))

\* a getOne that starts once the create has succeeded does not fail
GetAfterCreateSucceeds ==
  \A c, g \in Procs :
    /\ IsCreate(call[c])
    /\ result[c].kind = "return"
    /\ Calls(g)
    /\ call'[g].op = GetOf(call[c].op)
    /\ call'[g].args[1] = Get(result[c].val.o, IdentityField(call[c].op))
    => result'[g].kind # "throw"

\* C10 as stated: getOne on the identity a successful create returned
\* succeeds and gives back every field of the input, but the hashed secret,
\* with the input's value, plus the association.
C10_RoundTrip ==
  \A c, g \in Procs :
    GetsCreated(c, g) /\ result[g].kind = "return" =>
      GivesBack(c, g, InputFields(call[c].op))

RoundTripButCompanyHandle ==
  \A c, g \in Procs :
    GetsCreated(c, g) /\ result[g].kind = "return" =>
      /\ GivesBack(c, g, InputFields(call[c].op) \ {"companyHandle"})
      /\ call[c].op = "Job.create" =>
           /\ ~HasOwn(result[g].val.o, "companyHandle")
           /\ Get(Get(result[g].val.o, "company").o, "handle")
                = Get(call[c].args[1].o, "companyHandle")
           /\ Get(result[g].val.o, "id") = Get(result[c].val.o, "id")
      /\ call[c].op = "User.register" => ~HasOwn(result[g].val.o, "password")

\* C10: getOne on the identity a successful create returned succeeds and
\* gives back the fields of the input with the input's values, but for the
\* account's secret, which is not returned, and the posting's companyHandle,
\* which Job.get removes: the posting's record has the generated id and, as
\* `company`, the organization of that handle; organizations and accounts
\* carry `jobs`.
C10_RoundTripButCompanyHandle ==
  []RoundTripButCompanyHandle /\ [][GetAfterCreateSucceeds]_vars

\* one request created a posting and the other got it back by the id the
\* create returned
C10_Witness ==
  /\ call["r1"].op = "Job.create"
  /\ result["r1"].kind = "return"
  /\ call["r2"].op = "Job.get"
  /\ call["r2"].args[1] = Get(result["r1"].val.o, "id")
  /\ result["r2"].kind = "return"
  /\ Get(Get(result["r2"].val.o, "company").o, "handle") = Str("acme")

(***************************************************************************)
(* Properties of remove, update and getOne on keys.                        *)
(***************************************************************************)
\* the error the spec calls NotFound
IsNotFound(outcome) == outcome.kind = "throw" /\ outcome.err.name = "NotFoundError"

\* the repository of an operation, its table and the table's key
Repo(op) ==
  CASE op \in {"Job.get", "Job.update", "Job.remove", "Job.create"} -> "Job"
    [] op \in {"Company.get", "Company.update", "Company.remove", "Company.create"} -> "Company"
    [] OTHER -> "User"

Rows(repo) ==
  CASE repo = "Job" -> jobs
    [] repo = "Company" -> companies
    [] OTHER -> users

\* the same table once the step is done
RowsAfter(repo) ==
  CASE repo = "Job" -> jobs'
    [] repo = "Company" -> companies'
    [] OTHER -> users'

Pk(repo) ==
  CASE repo = "Job" -> "id"
    [] repo = "Company" -> "handle"
    [] OTHER -> "username"

IsRemove(c) == c.op \in {"Job.remove", "Company.remove", "User.remove"}
IsGet(c) == c.op \in {"Job.get", "Company.get", "User.get"}

\* the rows of the operation's table with the key the call names
Selected(c) == {r \in Rows(Repo(c.op)) : r[Pk(Repo(c.op))] = c.args[1]}

RemoveDeletesItsRow ==
  \A p \in Procs :
    Calls(p) /\ IsRemove(call'[p]) /\ result'[p].kind = "return" =>
      /\ Cardinality(Selected(call'[p])) = 1
      /\ RowsAfter(Repo(call'[p].op)) = Rows(Repo(call'[p].op)) \ Selected(call'[p])

GetAfterRemoveNotFound ==
  \A c, g \in Procs :
    /\ IsRemove(call[c])
    /\ result[c].kind = "return"
    /\ Calls(g)
    /\ IsGet(call'[g])
    /\ Repo(call'[g].op) = Repo(call[c].op)
    /\ call'[g].args[1] = call[c].args[1]
    /\ Selected(call[c]) = {}
    => IsNotFound(result'[g]) /\ pc'[g] = "idle"

JsToSqlOf(repo) ==
  CASE repo = "Job" -> <<>>
    [] repo = "Company" -> CompanyJsToSql
    [] OTHER -> UserJsToSql

\* the columns the payload names
NamedColumns(repo, data) == {ColumnOf(JsToSqlOf(repo), data[i].key) : i \in 1..Len(data)}

UpdateTouchesNamedOnly ==
  \A p \in Procs :
    Calls(p) /\ IsUpdate(call'[p]) /\ result'[p].kind = "return" =>
      LET repo == Repo(call'[p].op)
          key == call'[p].args[1]
          data == call'[p].args[2].o
          n == Len(data)
          before == Selected(call'[p])
          after == {r \in RowsAfter(repo) : r[Pk(repo)] = key}
      IN  /\ Cardinality(before) = 1 /\ Cardinality(after) = 1
          /\ \A r \in before, r2 \in after :
               /\ \A col \in (DOMAIN r) \ NamedColumns(repo, data) : r2[col] = r[col]
               /\ \A i \in 1..n : r2[ColumnOf(JsToSqlOf(repo), data[i].key)] = data[i].val
          /\ RowsAfter(repo) \ after = Rows(repo) \ before
          /\ \A other \in {"Job", "Company", "User"} \ {repo} : RowsAfter(other) = Rows(other)
          /\ applications' = applications
          /\ Len(sent'[p]) = 1
          /\ sent'[p][1].params = Values(data) \o <<key>>
          /\ Contains(sent'[p][1].text,
                      " WHERE " \o Pk(repo) \o " = $" \o ToString(n + 1) \o " RETURNING")

\* C12: a successful update(key, data) changes the fields named in data, in
\* the row selected by key, and nothing else; the key is the last
\* parameter, bound to $(n+1) after the n assignment values.
C12_UpdateFrame == [][UpdateTouchesNamedOnly]_vars

\* the title of posting 1 was updated: its salary and equity, and posting
\* 2, are as they were
C12_Witness ==
  /\ call["r1"].op = "Job.update"
  /\ call["r1"].args = <<Num(1), Obj(<<Prop("title", Str("Teller"))>>)>>
  /\ result["r1"].kind = "return"
  /\ jobs = {[ClerkRow EXCEPT !.title = Str("Teller")], TellerRow}

KeyedCall(c) ==
  \/ IsGet(c)
  \/ IsRemove(c)
  \/ IsUpdate(c) /\ c.args[2] # Obj(<<>>)

MissingKeyNotFound ==
  \A p \in Procs :
    Calls(p) /\ KeyedCall(call'[p]) /\ Selected(call'[p]) = {} =>
      /\ IsNotFound(result'[p])
      /\ pc'[p] = "idle"
      /\ store' = store

IsApply(c) == c.op = "User.applyToJob"

PostingExists(id) == \E j \in jobs : j.id = id
AccountExists(username) == \E u \in users : u.username = username

\* the call is answered NotFound with the posting's message after the one
\* probe of jobs
PostingMissingFailsFirst ==
  \A p \in Procs :
    Calls(p) /\ IsApply(call'[p]) /\ ~PostingExists(call'[p].args[2]) =>
      /\ result'[p] = Throw(NotFoundError("No job: " \o ToStr(call'[p].args[2])))
      /\ sent'[p] = <<Stmt(ApplyJobCheckSql, <<call'[p].args[2]>>)>>
      /\ pc'[p] = "idle"
      /\ store' = store

\* the call that got past the probe of jobs is answered NotFound with the
\* account's message after the probe of users
AccountMissingFails ==
  \A p \in Procs :
    pc[p] = "preCheck2" /\ pc'[p] # "preCheck2" /\ ~AccountExists(call[p].args[1]) =>
      /\ result'[p] = Throw(NotFoundError("No username: " \o ToStr(call[p].args[1])))
      /\ sent'[p] = <<Stmt(ApplyJobCheckSql, <<call[p].args[2]>>),
                      Stmt(ApplyUserCheckSql, <<call[p].args[1]>>)>>
      /\ pc'[p] = "idle"
      /\ store' = store

\* a call answered NotFound has sent no INSERT, and no step of it that
\* ends in NotFound adds a row to applications
NotFoundInsertsNothing ==
  \A p \in Procs :
    IsApply(call'[p]) /\ IsNotFound(result'[p]) =>
      /\ \A i \in 1..Len(sent'[p]) : sent'[p][i].text # ApplyInsertSql
      /\ result[p] # result'[p] => applications' = applications

\* C14: User.applyToJob fails with NotFound and inserts no row of
\* applications when the posting or the account does not exist; the posting
\* is probed first, so with both missing the failure is the posting's and
\* the probe of users is never sent.
C14_ApplyProbes ==
  [][PostingMissingFailsFirst /\ AccountMissingFails /\ NotFoundInsertsNothing]_vars

\* zed, who has no account, applied to a posting that does not exist
C14_Witness ==
  /\ call["r1"] = [op |-> "User.applyToJob", args |-> <<Str("zed"), Num(2)>>]
  /\ result["r1"] = Throw(NotFoundError("No job: 2"))
  /\ sent["r1"] = <<Stmt(ApplyJobCheckSql, <<Num(2)>>)>>
  /\ ~AccountExists(Str("zed")) /\ ~PostingExists(Num(2))
  /\ applications = {}

\* zed applied to the posting that exists
C14_WitnessAccount ==
  /\ call["r1"] = [op |-> "User.applyToJob", args |-> <<Str("zed"), Num(1)>>]
  /\ result["r1"] = Throw(NotFoundError("No username: zed"))
  /\ applications = {}

(***************************************************************************)
(* Properties of the accounts' secret and handle                           *)
(***************************************************************************)

UserOps == {"User.register", "User.findAll", "User.get", "User.update", "User.authenticate"}

\* the records a returned value holds: the elements of an array, the
\* object itself otherwise
RecordsOf(val) ==
  IF val.kind = "array" THEN {val.o[i] : i \in 1..Len(val.o)}
  ELSE IF val.kind = "object" THEN {val}
  ELSE {}

NoPasswordReturned ==
  \A p \in Procs :
    call[p].op \in UserOps /\ result[p].kind = "return" =>
      \A rec \in RecordsOf(result[p].val) : ~HasOwn(rec.o, "password")

\* C15: the records returned by User.register, User.findAll, User.get,
\* User.update and User.authenticate have no password field, also when the
\* payload of the update had one.
C15_NoSecretReturned == NoPasswordReturned

\* an update whose payload held a password gave the account's record back
C15_Witness ==
  /\ call["r1"].op = "User.update"
  /\ HasOwn(call["r1"].args[2].o, "password")
  /\ result["r1"].kind = "return"
  /\ Get(result["r1"].val.o, "username") = Str("bob")

\* authenticate gave the account's record back
C15_WitnessAuthenticate ==
  /\ call["r1"].op = "User.authenticate"
  /\ result["r1"].kind = "return"

\* the row of users a returned record is of, after the step
RowReturned(rec) == {u \in users' : u.username = Get(rec.o, "username")}

RegisterHashes ==
  \A p \in Procs :
    /\ pc[p] = "insert" /\ call[p].op = "User.register"
    /\ pc'[p] = "idle" /\ result'[p].kind = "return"
    => \A u \in RowReturned(result'[p].val) :
         /\ u.password = Str(Hash(ToStr(Get(call[p].args[1].o, "password"))))
         /\ u.password # Get(call[p].args[1].o, "password")

UpdateHashes ==
  \A p \in Procs :
    /\ Calls(p) /\ call'[p].op = "User.update"
    /\ HasOwn(call'[p].args[2].o, "password")
    /\ result'[p].kind = "return"
    => \A u \in RowReturned(result'[p].val) :
         /\ u.password = Str(Hash(ToStr(Get(call'[p].args[2].o, "password"))))
         /\ u.password # Get(call'[p].args[2].o, "password")

\* C16: after User.register and after User.update with a secret in its
\* payload, the secret stored for the account is the hash of the secret
\* supplied, as bcrypt.hash gives it, and not the secret itself.
C16_SecretHashed == [][RegisterHashes /\ UpdateHashes]_vars

\* the names of the accounts
Handles_(tbl) == {u.username : u \in tbl}

UpdateKeepsUsername ==
  \A p \in Procs :
    Calls(p) /\ call'[p].op = "User.update" /\ result'[p].kind = "return" =>
      /\ Get(result'[p].val.o, "username") = call'[p].args[1]
      /\ Handles_(users') = Handles_(users)

\* C17: no successful User.update, whatever its payload, changes the
\* username of the row it selected, or of any other row.
C17_HandleImmutable == [][UpdateKeepsUsername]_vars

(***************************************************************************)
(* Properties of what findAll returns                                      *)
(***************************************************************************)

\* what a criterion asks of a row: a bound on a number, the flag that
\* keeps postings with equity only, a text found in the name whatever the
\* case of its letters
Satisfies(row, key, v) ==
  CASE key = "minEmployees" -> row.num_employees.kind = "number" /\ row.num_employees.n >= v.n
    [] key = "maxEmployees" -> row.num_employees.kind = "number" /\ row.num_employees.n <= v.n
    [] key = "name" -> Contains(Lower(row.name.s), Lower(v.s))
    [] key = "minSalary" -> row.salary.kind = "number" /\ row.salary.n >= v.n
    [] key = "hasEquity" -> v = Bool(TRUE) => DecimalPositive(row.equity.s)
    [] key = "title" -> Contains(Lower(row.title.s), Lower(v.s))

\* the stored rows that satisfy every criterion of q
Matching(tbl, q) == {r \in tbl : \A i \in 1..Len(q) : Satisfies(r, q[i].key, q[i].val)}

\* the row as the list shows it: its columns under the select list's
\* names, and for a posting the name of its organization
Shown(op, r) ==
  IF op = "Company.findAll" THEN CompanyRecord(r)
  ELSE JobRecord(r) \o
       <<Prop("companyName", (CHOOSE c \in companies : c.handle = r.company_handle).name)>>

SortKey(op) == IF op = "Company.findAll" THEN "name" ELSE "id"

Sorted(recs, key) ==
  \A i, j \in 1..Len(recs) : i < j => ValLessEq(Get(recs[i].o, key), Get(recs[j].o, key))

ReturnsMatchingRows ==
  \A p \in Procs :
    IsFindAll(call[p]) /\ result[p].kind = "return" =>
      LET op == call[p].op
          recs == result[p].val.o
          want == Matching(IF op = "Company.findAll" THEN companies ELSE jobs, call[p].args[1].o)
      IN  /\ {recs[i].o : i \in 1..Len(recs)} = {Shown(op, r) : r \in want}
          /\ Len(recs) = Cardinality(want)
          /\ Sorted(recs, SortKey(op))

\* C18: findAll returns the stored rows that satisfy every criterion of the
\* query, each once and as stored, in the order of name for organizations
\* and of id for postings; a posting carries its organization's name.
C18_FindAllExact == ReturnsMatchingRows

\* of the postings of salary 1 and 2, minSalary 2 gave the second alone,
\* with the name of its organization
C18_Witness ==
  /\ call["r1"] = [op |-> "Job.findAll", args |-> <<Obj(<<Prop("minSalary", Num(2))>>)>>]
  /\ result["r1"] = Return(Arr(<<Obj(JobRecord(TellerRow) \o <<Prop("companyName", Str("Boltnet"))>>)>>))

\* both organizations were listed, in the order of their names
C18_WitnessSorted ==
  /\ call["r1"].op = "Company.findAll"
  /\ result["r1"].kind = "return"
  /\ Len(result["r1"].val.o) = 2

(***************************************************************************)
(* Properties of what getOne returns when other requests run between its   *)
(* two reads                                                               *)
(***************************************************************************)

\* slot p gets the answer to its second read in this step
SecondRead(p, op, at) == pc[p] = at /\ call[p].op = op /\ pc'[p] = "idle"

\* the record but for the field k
Without(rec, k) == SelectSeq(rec, LAMBDA f : f.key # k)

\* the first read holds the primary row as it is stored
PrimaryRowHeld ==
  \A p \in Procs :
    Calls(p) /\ IsGet(call'[p]) /\ result'[p].kind # "throw" =>
      \E r \in Selected(call'[p]) :
        local'[p] = CASE call'[p].op = "Job.get" -> JobRecord(r)
                      [] call'[p].op = "Company.get" -> CompanyRecord(r)
                      [] call'[p].op = "User.get" -> UserRecord(r)

CompanyGetAttachesJobs ==
  \A p \in Procs :
    SecondRead(p, "Company.get", "jobs") =>
      LET rec == result'[p].val.o
          own == {j \in jobs : j.company_handle = call[p].args[1]}
          got == Get(rec, "jobs").o
      IN  /\ result'[p].kind = "return"
          /\ Without(rec, "jobs") = local[p]
          /\ {got[i].o : i \in 1..Len(got)} = {CompanyJobRecord(j) : j \in own}
          /\ Len(got) = Cardinality(own)
          /\ Sorted(got, "id")

UserGetAttachesJobs ==
  \A p \in Procs :
    SecondRead(p, "User.get", "applications") =>
      LET rec == result'[p].val.o
          own == {a \in applications : a.username = call[p].args[1]}
          got == Get(rec, "jobs").o
      IN  /\ result'[p].kind = "return"
          /\ Without(rec, "jobs") = local[p]
          /\ {got[i] : i \in 1..Len(got)} = {a.job_id : a \in own}
          /\ Len(got) = Cardinality(own)

\* the organizations that own the posting the first read gave
Owner(p) == {c \in companies : c.handle = Get(local[p], "companyHandle")}

JobGetAttachesCompany ==
  \A p \in Procs :
    SecondRead(p, "Job.get", "company") =>
      LET rec == result'[p].val.o
      IN  /\ result'[p].kind = "return"
          /\ ~HasOwn(rec, "companyHandle")
          /\ Without(rec, "company") = Without(local[p], "companyHandle")
          /\ \E c \in Owner(p) : Get(rec, "company") = Obj(CompanyRecord(c))

JobGetAttachesCompanyIfAny ==
  \A p \in Procs :
    SecondRead(p, "Job.get", "company") =>
      LET rec == result'[p].val.o
      IN  /\ result'[p].kind = "return"
          /\ ~HasOwn(rec, "companyHandle")
          /\ Without(rec, "company") = Without(local[p], "companyHandle")
          /\ HasOwn(rec, "company")
          /\ IF Owner(p) = {} THEN Get(rec, "company") = Undefined
                              ELSE \E c \in Owner(p) : Get(rec, "company") = Obj(CompanyRecord(c))

\* C19: a successful getOne returns the primary row with its association:
\* Company.get the postings of the organization as jobs, Job.get the
\* organization of the posting as company and no companyHandle, User.get the
\* ids of the account's applications as jobs, also with deletes, creates and
\* applications of other requests between the two reads.
C19_GetAttaches ==
  [][PrimaryRowHeld /\ CompanyGetAttachesJobs /\ UserGetAttachesJobs /\ JobGetAttachesCompany]_vars

\* C19, amended: the primary row is the one the first read found, the
\* association is what the second read finds when it runs, and company is
\* undefined when the organization is gone by then.
C19_GetAttachesAsOfSecondRead ==
  [][PrimaryRowHeld /\ CompanyGetAttachesJobs /\ UserGetAttachesJobs /\ JobGetAttachesCompanyIfAny]_vars

\* the organization was deleted between the two reads of Job.get
C19_Witness ==
  /\ call["r1"] = [op |-> "Job.get", args |-> <<Num(1)>>]
  /\ result["r1"].kind = "return"
  /\ Get(result["r1"].val.o, "company") = Undefined
  /\ call["r2"].op \in {"Company.remove", "Job.remove"}

(***************************************************************************)
(* Properties of the handlers                                              *)
(***************************************************************************)

\* what the operation of the repository that a route awaits does, from where
\* the request stands and on the arguments the handler passes
Invoke(route, args, at, loc, onDelete) ==
  CASE route = "POST /companies" ->
         IF at = "idle" THEN CompanyCreate(args[1].o) ELSE CompanyCreateInsert(loc)
    [] route = "GET /companies" -> CompanyFindAll(CompanyQuery(args[1].o))
    [] route = "GET /companies/:handle" ->
         IF at = "idle" THEN CompanyGet(args[1]) ELSE CompanyGetJobs(loc)
    [] route = "PATCH /companies/:handle" -> CompanyUpdate(args[1], args[2].o)
    [] route = "DELETE /companies/:handle" -> CompanyRemove(args[1], onDelete)
    [] route = "POST /jobs" -> JobCreate(args[1].o)
    [] route = "GET /jobs" -> JobFindAll(JobQuery(args[1].o))
    [] route = "PATCH /jobs/:id" -> JobUpdate(Plus(args[1]), args[2].o)
    [] route = "DELETE /jobs/:id" -> JobRemove(Plus(args[1]), onDelete)
    [] route = "POST /users" ->
         IF at = "idle" THEN UserRegister(args[1].o) ELSE UserRegisterInsert(loc)
    [] route = "GET /users" -> UserFindAll
    [] route = "PATCH /users/:username" -> UserUpdate(args[1], args[2].o)
    [] route = "DELETE /users/:username" -> UserRemove(args[1], onDelete)

IsRoute(c) == c.op \in Validating \cup
  {"GET /companies/:handle", "DELETE /companies/:handle", "DELETE /jobs/:id",
   "GET /users", "DELETE /users/:username"}

\* slot p goes on from an await in this step
Resumes(p) == pc[p] # "idle" /\ pc'[p] # pc[p]

\* the validator turned the request down
TurnedDown(c) == c.op \in Validating /\ ~c.args[2].valid

RejectedIsBadInput ==
  \A p \in Procs :
    Calls(p) /\ IsRoute(call'[p]) /\ TurnedDown(call'[p]) =>
      LET errors == call'[p].args[2].errors
      IN  /\ invoked'[p] = <<>>
          /\ sent'[p] = <<>>
          /\ store' = store
          /\ pc'[p] = "idle"
          /\ result'[p].kind = "next"
          /\ result'[p].err.name = "BadRequestError"
          /\ Len(errors) >= 1
          /\ result'[p].err.message = [i \in 1..Len(errors) |-> errors[i].stack]

\* what the operation of the repository does from where the request stands,
\* and what the handler makes of it: one call, its statements and no more,
\* its error passed to next as it is, a response only when it returned
ErrorsForwarded ==
  \A p \in Procs :
    IsRoute(call'[p]) /\ ~TurnedDown(call'[p]) /\ (Calls(p) \/ Resumes(p)) =>
      \E onDelete \in OnDelete :
        LET route == call'[p].op
            eff == Invoke(route, call'[p].args[1], pc[p], local[p], onDelete)
        IN  /\ invoked'[p] = <<Operation(route)>>
            /\ sent'[p] = (IF pc[p] = "idle" THEN <<>> ELSE sent[p]) \o eff.stmts
            /\ pc'[p] = eff.pc
            /\ eff.outcome.kind = "throw" =>
                 /\ result'[p] = Forwarded(eff.outcome.err)
                 /\ pc'[p] = "idle"
            /\ result'[p].kind = "json" =>
                 /\ eff.outcome.kind = "return"
                 /\ result'[p].status = Status(route)

\* C20: in the routes that validate, a payload the validator rejects is
\* answered with BadRequestError holding the list of the validator's
\* messages and no operation of the repository is called; an error thrown
\* by an operation of the repository goes to next(err) as it is, no response
\* is sent and the operation is not called again.
C20_RoutesForward == [][RejectedIsBadInput /\ ErrorsForwarded]_vars

\* PATCH /jobs/1 with a salary that is no number and no title was turned
\* down with the two messages
C20_Witness ==
  /\ call["r1"].op = "PATCH /jobs/:id"
  /\ call["r1"].args[1] = <<Str("1"), Obj(<<Prop("salary", Str("x"))>>)>>
  /\ invoked["r1"] = <<>>
  /\ result["r1"] = Forwarded(BadRequestError(<<"instance requires property \"title\"",
                                                "instance.salary is not of a type(s) integer">>))

\* POST /companies for a handle that is taken passed Company.create's error on
C20_WitnessForwarded ==
  /\ call["r1"].op = "POST /companies"
  /\ invoked["r1"] = <<"Company.create">>
  /\ result["r1"] = Forwarded(BadRequestError("Duplicate company: acme"))

(***************************************************************************)
(* Properties of User.authenticate                                         *)
(***************************************************************************)

\* the accounts of that name whose stored secret is the hash of password
Holders(username, password) ==
  {u \in users : u.username = username /\ u.password = Str(Hash(ToStr(password)))}

AuthenticateIffMatch ==
  \A p \in Procs :
    Calls(p) /\ call'[p].op = "User.authenticate" =>
      LET holders == Holders(call'[p].args[1], call'[p].args[2])
      IN  /\ store' = store
          /\ pc'[p] = "idle"
          /\ result'[p].kind = "return" <=> holders # {}
          /\ holders # {} => \E u \in holders : result'[p] = Return(Obj(UserRecord(u)))
          /\ holders = {} =>
                result'[p] = Throw(UnauthorizedError("Invalid username/password"))

\* C21: User.authenticate returns the account's record, without the
\* password, exactly when an account of that username exists and the
\* password is the one its stored hash was made from; for an unknown
\* username and for a wrong password it throws the same UnauthorizedError
\* with the same message; it leaves the store as it was.
C21_Authenticate == [][AuthenticateIffMatch]_vars

\* bob, registered with pw2, was authenticated with pw2
C21_Witness ==
  /\ call["r1"] = [op |-> "User.authenticate", args |-> <<Str("bob"), Str("pw2")>>]
  /\ result["r1"].kind = "return"
  /\ \E u \in users : u.username = Str("bob") /\ u.password = Str("$2b$pw2")

\* a wrong password for bob, and a name no account has, got the same answer
C21_WitnessWrongPassword ==
  /\ call["r1"] = [op |-> "User.authenticate", args |-> <<Str("bob"), Str("pw1")>>]
  /\ result["r1"] = Throw(UnauthorizedError("Invalid username/password"))
  /\ \E u \in users : u.username = Str("bob")

C21_WitnessUnknown ==
  /\ call["r1"] = [op |-> "User.authenticate", args |-> <<Str("rob"), Str("pw1")>>]
  /\ result["r1"] = Throw(UnauthorizedError("Invalid username/password"))
  /\ ~\E u \in users : u.username = Str("rob")

(***************************************************************************)
(* Uniqueness of the keys under concurrent requests                        *)
(***************************************************************************)

\* C22: in every reachable state, whatever way concurrent create, update
\* and remove calls interleave, the store holds at most one organization
\* row per handle and at most one account row per username.
C22_KeysUnique ==
  /\ Cardinality({r.handle : r \in companies}) = Cardinality(companies)
  /\ Cardinality({r.username : r \in users}) = Cardinality(users)

\* both requests passed the duplicate check for acme with different data,
\* one INSERT went in and the other was turned down by the primary key
C22_Witness ==
  /\ call["r1"].op = "Company.create" /\ call["r2"].op = "Company.create"
  /\ call["r1"].args # call["r2"].args
  /\ result["r1"].kind = "return"
  /\ result["r2"] = Throw(UniqueViolation("handle"))
  /\ Cardinality(companies) = 1

\* an update that moved bob onto rob's username was turned down
C22_WitnessRename ==
  /\ call["r1"].op = "User.update"
  /\ result["r1"] = Throw(UniqueViolation("username"))
  /\ {r.username : r \in users} = {Str("bob"), Str("rob")}

(***************************************************************************)
(* Applications and the rows they reference                                *)
(***************************************************************************)

\* the account and the posting of application row a are in the given tables
Referenced(a, us, js) ==
  /\ \E u \in us : u.username = a.username
  /\ \E j \in js : j.id = a.job_id

\* a step of applyToJob that adds a row finds both referenced rows in the
\* store it inserts into, and leaves them there
InsertSeesBoth ==
  \A p \in Procs :
    pc[p] = "apply" /\ pc'[p] # pc[p] =>
      /\ applications' \ applications \subseteq
            {[job_id |-> local[p][2], username |-> local[p][1]]}
      /\ \A a \in applications' \ applications :
            Referenced(a, users, jobs) /\ Referenced(a, users', jobs')
      /\ applications' = applications => result'[p].kind = "throw"

NoDanglingApplication == \A a \in applications : Referenced(a, users, jobs)

\* C23: whenever User.applyToJob inserts an application row, the account
\* and the posting it references are in the store at the moment of the
\* insert, also when a remove of either came between the probes and the
\* insert; so in every reachable state every application row references
\* an existing account and an existing posting.
C23_ApplyReferences == [][InsertSeesBoth]_vars /\ []NoDanglingApplication

\* an application of bob to posting 1 went in while the other request had
\* a remove answered
C23_Witness ==
  /\ call["r1"].op = "User.applyToJob" /\ pc["r1"] = "idle"
  /\ result["r1"] = Return(Undefined)
  /\ [job_id |-> call["r1"].args[2], username |-> call["r1"].args[1]] \in applications
  /\ call["r2"].op \in {"Job.remove", "User.remove", "Company.remove"}

\* a remove came between the probes and the insert: the insert was turned
\* down and no row was written
C23_WitnessRaced ==
  /\ call["r1"].op = "User.applyToJob" /\ pc["r1"] = "idle"
  /\ Len(sent["r1"]) = 3
  /\ result["r1"] = Throw(ForeignKeyViolation("applications_fkey"))
  /\ call["r2"].op \in {"Job.remove", "User.remove"} /\ result["r2"] = Return(Undefined)
  /\ applications = {}

(***************************************************************************)
(* Applying twice                                                          *)
(***************************************************************************)

\* the application of the account to the posting is in the store
Applied(username, jobId) ==
  \E a \in applications : a.username = username /\ a.job_id = jobId

\* the statements of one whole applyToJob: the two probes and the INSERT
ApplyStatements(username, jobId) ==
  <<Stmt("SELECT id FROM jobs WHERE id = $1", <<jobId>>),
    Stmt("SELECT username FROM users WHERE username = $1", <<username>>),
    Stmt("INSERT INTO applications (job_id, username) VALUES ($1, $2)", <<jobId, username>>)>>

\* each step of an applyToJob for a pair that is in the store already
SecondApply ==
  \A p \in Procs :
    /\ Calls(p) /\ IsApply(call'[p]) /\ Applied(call'[p].args[1], call'[p].args[2]) =>
          pc'[p] = "preCheck2" /\ applications' = applications
    /\ pc[p] = "preCheck2" /\ Resumes(p) /\ Applied(local[p][1], local[p][2]) =>
          pc'[p] = "apply" /\ applications' = applications
    /\ pc[p] = "apply" /\ Resumes(p) /\ Applied(local[p][1], local[p][2]) =>
          /\ pc'[p] = "idle"
          /\ sent'[p] = ApplyStatements(local[p][1], local[p][2])
          /\ result'[p].kind = "throw"
          /\ result'[p].err.name = "error" /\ result'[p].err.code = "23505"
          /\ ~IsNotFound(result'[p]) /\ ~IsBadInput(result'[p])
          /\ applications' = applications

\* C24: User.applyToJob does not probe for the application: a second
\* applyToJob for a pair that is applied already passes both existence
\* probes, sends its INSERT, and is turned down by the storage layer's
\* uniqueness constraint alone, with the storage error and neither a
\* NotFoundError nor a duplicate BadRequestError; the rejected call leaves
\* the application rows as they were, and no pair is held twice.
C24_SecondApply ==
  /\ [][SecondApply]_vars
  /\ [](Cardinality({<<a.username, a.job_id>> : a \in applications}) = Cardinality(applications))

\* bob applied to posting 1 and then applied again
C24_Witness ==
  /\ call["r1"] = [op |-> "User.applyToJob", args |-> <<Str("bob"), Num(1)>>]
  /\ pc["r1"] = "idle"
  /\ Len(sent["r1"]) = 3
  /\ result["r1"] = Throw(UniqueViolation("applications_pkey"))
  /\ Applied(Str("bob"), Num(1))

====
